---- MODULE Spec2Model ----
(***************************************************************************)
(* Hugin: the crawl orchestrator (services/crawler.js), the crawl routes   *)
(* (routes/crawler.js), the recrawl scheduler (services/scheduler.js), the *)
(* robots service (services/robots.js), the search service                 *)
(* (services/search.js) and the session routes and their middleware        *)
(* (routes/auth.js, middleware/auth.js), as one state machine.             *)
(*                                                                         *)
(* Node runs one callback at a time: every action below is the code that   *)
(* runs between two awaits of one crawl task (or one request handler), and *)
(* the tasks interleave at their awaits.                                   *)
(*                                                                         *)
(* A URL is a record [host, path, hash]: host is the sequence of the       *)
(* hostname's dot-separated labels, path the sequence of the pathname's    *)
(* characters, hash the fragment.  All URLs are https on the default port, *)
(* so an origin is identified by its host.                                 *)
(***************************************************************************)
EXTENDS Integers, Sequences, FiniteSets, TLC

\* ------------------------------------------------------------- bounds
\* Number of crawl invocations over the life of the process.
MaxTasks == 2
\* Date.now() takes the values 1..MaxMs.
MaxMs == 2
\* The value of CRAWLER_MAX_PAGES in the environment.
EnvCrawlerMaxPages == 2
\* The largest maxDepth a submission's body carries.
MaxDepthInput == 1

\* The value of CRAWLER_MAX_DEPTH in the environment.
EnvCrawlerMaxDepth == 1

\* ------------------------------------------------- program constants
\* maxDepth || parseInt(process.env.CRAWLER_MAX_DEPTH) || 3
FallbackMaxDepth == 3

Tasks == 1..MaxTasks

\* Number of browser sessions (session cookies).
MaxSessions == 2
\* Number of GET /callback requests over the life of the process.
MaxCallbacks == 2
\* Number of GET /login requests that reach generateState().
MaxLogins == 2
\* Number of authorization codes the provider issues.
MaxCodes == 2

Sids == 1..MaxSessions
Requests == 1..MaxCallbacks

\* ---------------------------------------------------------------- URLs
YggHost == <<"a", "ygg">>
ClearHost == <<"b", "com">>
LocalHost == <<"localhost">>
DockerHost == <<"host", "docker", "internal">>

Root == <<"/">>
PathX == <<"/", "x">>
PathXSlash == <<"/", "x", "/">>

MkUrl(h, p, f) == [host |-> h, path |-> p, hash |-> f]

\* A string that new URL() rejects.
InvalidUrl == MkUrl(<<>>, <<>>, "")

IsValidUrl(u) == u.host # <<>>

\* new URL(s).pathname of an http(s) URL is never empty.
ParsedPath(u) == IF u.path = <<>> THEN Root ELSE u.path

HasTrailingSlash(p) == Len(p) > 1 /\ p[Len(p)] = "/"

normalizeUrl(u) ==
  LET p1 == ParsedPath(u)
      p2 == IF HasTrailingSlash(p1) THEN SubSeq(p1, 1, Len(p1) - 1) ELSE p1
      p3 == IF p2 = <<>> THEN Root ELSE p2
  IN  MkUrl(u.host, p3, "")

isYggdrasilDomain(h) ==
  Len(h) >= 2 /\ h[Len(h)] \in {"ygg", "anon"}

isLocalhost(h) ==
  \/ h = <<"localhost">>
  \/ h = <<"127", "0", "0", "1">>
  \/ (Len(h) > 2 /\ h[1] = "192" /\ h[2] = "168")
  \/ (Len(h) > 1 /\ h[1] = "10")
  \/ (Len(h) > 2 /\ h[1] = "172" /\ h[2] = "16")
  \/ (Len(h) >= 1 /\ h[1] = "[::1]")

isAllowedDomain(dev, h) ==
  IF dev /\ isLocalhost(h) THEN TRUE ELSE isYggdrasilDomain(h)

convertUrlForCrawling(dev, u) ==
  IF dev /\ IsValidUrl(u) /\ isLocalhost(u.host)
  THEN MkUrl(DockerHost, ParsedPath(u), u.hash)
  ELSE u

IsPrefix(a, b) == Len(a) <= Len(b) /\ SubSeq(b, 1, Len(a)) = a

\* ------------------------------------------------------ the environment
\* What the network can answer.  Hosts the model's sites live on:
Hosts == {YggHost, ClearHost, LocalHost}

OtherHost(h) == IF h = YggHost THEN ClearHost ELSE YggHost

\* URLs a caller submits (routes/crawler.js accepts any well-formed URL).
SeedInputs ==
  { MkUrl(YggHost, <<>>, ""), MkUrl(ClearHost, Root, ""), MkUrl(LocalHost, Root, "") }

\* A parsed robots.txt: the path prefixes disallowed for Hugin-Webcrawler, its
\* Crawl-delay ({} when it gives none) and the sitemaps it lists.
\* The empty rule set is also what a 404 or a failed fetch resolves to.
Permissive == [disallow |-> {}, crawlDelay |-> {}, sitemaps |-> <<>>]
RobotsTxts == { Permissive, [disallow |-> {PathX}, crawlDelay |-> {}, sitemaps |-> <<>>] }

\* The <loc> entries a sitemap of host h can hold.
SitemapLists(h) ==
  { <<>>,
    << MkUrl(h, PathXSlash, ""), MkUrl(OtherHost(h), Root, ""), InvalidUrl >> }

\* The a[href] values a page rendered on host h can hold.
LinkLists(h) ==
  { <<>>,
    << MkUrl(OtherHost(h), Root, ""), MkUrl(h, PathXSlash, "f"), MkUrl(h, <<>>, "") >> }

\* The directive tokens a page's X-Robots-Tag header or robots meta tag holds.
DirectiveTokens == {"noindex", "nofollow", "nosnippet", "none", "NOINDEX"}

\* String.prototype.toLowerCase on a directive token.
toLowerCase(tok) == IF tok = "NOINDEX" THEN "noindex" ELSE tok

\* What page.goto and the rendered DOM give for one URL of host h: `error` is
\* "none" or "goto" (navigation or extraction rejects inside the try, a null
\* response included).
MkResponse(e, x, m, l, d) ==
  [error |-> e, xRobotsTag |-> x, robotsMeta |-> m, links |-> l,
   description |-> d, title |-> "t", body |-> "c"]

NoResponse == MkResponse("unset", {}, {}, <<>>, "")

\* Pages without robots directives, and a fetch that fails.
PlainResponses(h) ==
  { MkResponse("none", {}, {}, l, "d") : l \in LinkLists(h) }
    \cup { MkResponse("goto", {}, {}, <<>>, "") }

\* Pages whose header or meta tag holds one directive token.
DirectiveResponses(h) ==
  { MkResponse("none", x, m, l, "d") :
      x \in {{}} \cup {{k} : k \in DirectiveTokens},
      m \in {{}} \cup {{k} : k \in DirectiveTokens},
      l \in LinkLists(h) \ {<<>>} }

\* --------------------------------------------------------------- state
VARIABLES
  devMode,             \* process.env.DEVELOPMENT_MODE === 'true'
  browser,             \* crawler.js `browser`: 0 is null, n the n-th launched instance
  openPages,           \* the pages browser.newPage() gave that are not closed
  visitedUrls,         \* crawler.js `visitedUrls`
  robotsCache,         \* robots.js `robotsCache`: host -> {} or {record}
  timestamp,           \* robots.js `robotsCache`: host -> the entry's timestamp (ms)
  now,                 \* Date.now() (ms)
  querying,            \* each caller's position in getRobotsTxt
  jobDocs,             \* the store's crawl_job documents
  pageDocs,            \* the store's page documents
  nextUuid,            \* the next value uuidv4() returns
  pc,                  \* each task's position in crawlUrl
  crawlId, normalizedStartUrl, maxDepth,      \* crawlUrl's parameters and locals
  queue, cur, processedPages, allowed, pageData, existing,
  response,            \* fetchAndParsePage's `response` of the current iteration
  served,              \* the environment: "plain" or "directives", the pages the sites serve
  input, output,       \* the argument and the results of a function applied on its own
  bypassAuth,          \* process.env.BYPASS_AUTH === 'true'
  sessionStore,        \* express-session's store: session id -> session
  nextState,           \* the next value generateState() and generatePKCE() return
  callbacks,           \* each GET /callback request's position, query and req.session
  redeemed,            \* the provider: the authorization codes it exchanged
  unauthorized,        \* history: the sessions whose guarded request got 401
  issued,              \* history: the updates each task passed to updateCrawlJob
  savedCount,          \* history: the page inserts of each task the store accepted
  known,               \* history: the URLs each task dequeued that another crawl had stored
  rendered             \* history, kept where a claim asks: the URLs a task opened a page for

sharedVars == <<devMode, browser, openPages, visitedUrls, robotsCache, jobDocs, pageDocs, nextUuid>>
paramVars == <<crawlId, normalizedStartUrl, maxDepth>>
loopVars == <<queue, cur, processedPages, allowed, pageData, existing, response>>
cacheVars == <<timestamp, now, querying>>
authVars == <<bypassAuth, sessionStore, nextState, callbacks, redeemed, unauthorized>>
envVars == <<served, input, output, cacheVars, authVars>>
histVars == <<issued, savedCount, known, rendered>>
vars == <<sharedVars, pc, paramVars, loopVars, histVars, envVars>>

NoEntry == [url |-> InvalidUrl, depth |-> 0]
NoCrawlId == [kind |-> "none", n |-> 0]
NoQuery == [host |-> <<>>, at |-> "idle", caught |-> FALSE]

\* A session without data; 0 stands for a field that is not set.
NoSession == [user |-> 0, oidc_state |-> 0, oidc_code_verifier |-> 0]
NoCallback ==
  [at |-> "idle", sid |-> 0, session |-> NoSession, code |-> 0, state |-> 0, outcome |-> "none"]

\* fetchAndParsePage's return value; ok = FALSE is null.
MkPage(l, nf, ns, md, ti, co) ==
  [ok |-> TRUE, links |-> l, nofollow |-> nf, nosnippet |-> ns,
   metaDescription |-> md, title |-> ti, content |-> co]

NullPage == [ok |-> FALSE, links |-> <<>>, nofollow |-> FALSE, nosnippet |-> FALSE,
             metaDescription |-> "", title |-> "", content |-> ""]

\* The state of the crawler process and of the store at start-up.
IdleInit ==
  /\ devMode \in BOOLEAN
  /\ browser = 0
  /\ openPages = 0
  /\ visitedUrls = {}
  /\ jobDocs = {}
  /\ pageDocs = {}
  /\ nextUuid = 1
  /\ pc = [t \in Tasks |-> "idle"]
  /\ crawlId = [t \in Tasks |-> NoCrawlId]
  /\ normalizedStartUrl = [t \in Tasks |-> InvalidUrl]
  /\ maxDepth = [t \in Tasks |-> 0]
  /\ queue = [t \in Tasks |-> <<>>]
  /\ cur = [t \in Tasks |-> NoEntry]
  /\ processedPages = [t \in Tasks |-> 0]
  /\ allowed = [t \in Tasks |-> FALSE]
  /\ pageData = [t \in Tasks |-> NullPage]
  /\ existing = [t \in Tasks |-> {}]
  /\ response = [t \in Tasks |-> NoResponse]
  /\ issued = [t \in Tasks |-> <<>>]
  /\ savedCount = [t \in Tasks |-> 0]
  /\ known = [t \in Tasks |-> {}]
  /\ rendered = [t \in Tasks |-> [once |-> {}, again |-> {}]]
  /\ timestamp = [h \in Hosts |-> 0]
  /\ now = 0
  /\ querying = [t \in Tasks |-> NoQuery]
  /\ sessionStore = [s \in Sids |-> NoSession]
  /\ nextState = 1
  /\ callbacks = [r \in Requests |-> NoCallback]
  /\ redeemed = {}
  /\ unauthorized = {}

\* const robotsCache = new Map()
CrawlerInit ==
  /\ IdleInit
  /\ robotsCache = [h \in Hosts |-> {}]
  /\ bypassAuth = FALSE

\* The sites serve pages without robots directives.
Init ==
  /\ CrawlerInit
  /\ served = "plain"
  /\ input = <<>>
  /\ output = <<>>

\* ------------------------------------------------------------ the store
\* routes/crawler.js creates the job document under this identifier ...
SubmitDocId(cid) == [prefix |-> "crawl_", cid |-> cid]
\* ... and services/crawler.js looks it up under this one.
UpdateDocId(cid) == [prefix |-> "crawl:", cid |-> cid]
\* GET /status/:crawlId reads this one.
StatusDocId(cid) == [prefix |-> "crawl_", cid |-> cid]

JobDocsWithId(id) == {d \in jobDocs : d.id = id}

\* An update that reaches every job document of the store.
updateEveryCrawlJob(cid, status, pages, dbOk) ==
  IF dbOk THEN {[d EXCEPT !.status = status, !.log = Append(@, status)] : d \in jobDocs}
  ELSE jobDocs

\* updateCrawlJob(crawlId, updates): db.get, then db.insert of the merged
\* document; every error is caught and logged.  dbOk: the store answers.
updateCrawlJob(cid, status, pages, dbOk) ==
  LET found == JobDocsWithId(UpdateDocId(cid)) IN
  IF dbOk /\ found # {}
  THEN LET doc == CHOOSE d \in found : TRUE IN
       (jobDocs \ {doc}) \cup
         {[doc EXCEPT !.status = status,
                      !.pagesProcessed = IF pages >= 0 THEN pages ELSE @,
                      !.log = Append(@, status)]}
  ELSE jobDocs

\* const CACHE_TTL = 24 * 60 * 60 * 1000
CACHE_TTL == 86400000

\* What an axios.get settles with: an HTTP answer, or no answer at all.
HttpAnswer(status, data) == [kind |-> "http", status |-> status, data |-> data]
NoAnswer(kind) == [kind |-> kind, status |-> 0, data |-> <<>>]

\* The value or the exception a piece of code ends with.
Returns(v) == [threw |-> FALSE, value |-> v]
Throws == [threw |-> TRUE, value |-> <<>>]

\* axios.get(url, {validateStatus}): rejects unless a status validateStatus
\* accepts came back.
axiosGet(resp, accepted) ==
  IF resp.kind = "http" /\ resp.status \in accepted THEN Returns(resp) ELSE Throws

\* try/catch with no handler: the exception goes to the caller.
tryRethrow(r, fallback) == r

\* try { r } catch { return fallback }
tryCatch(r, fallback) == IF r.threw THEN Returns(fallback) ELSE r

\* getRobotsTxt, the try block: fetch, and parse the body of a 200 ('' for a 404).
fetchRobotsTxt(resp) ==
  LET r == axiosGet(resp, {200, 404})
  IN  IF r.threw THEN Throws
      ELSE Returns(IF resp.status = 200 THEN resp.data ELSE Permissive)

\* getRobotsTxt with a cache entry of the given age (ms): the cached parser
\* while it is fresh, else the fetched one, the permissive one if the fetch fails.
\* A cache that is never consulted.
cachedNever(h, age) == FALSE

\* cached && Date.now() - cached.timestamp < CACHE_TTL
cachedFresh(h, age) == robotsCache[h] # {} /\ age < CACHE_TTL

getRobotsTxtAt(h, age, resp) ==
  IF cachedFresh(h, age)
  THEN Returns(CHOOSE r \in robotsCache[h] : TRUE)
  ELSE tryCatch(fetchRobotsTxt(resp), Permissive)

\* What getRobotsTxt(origin) returns when a cache entry is fresh and the fetch
\* gives fetchedTxt: the cached record, else the fetched one.
getRobotsTxt(h, fetchedTxt) == getRobotsTxtAt(h, 0, HttpAnswer(200, fetchedTxt)).value

\* parser.isAllowed(url, 'Hugin-Webcrawler')
isAllowedByRobots(txt, u) == ~ \E rule \in txt.disallow : IsPrefix(rule, ParsedPath(u))

\* ------------------------------------------------------------ crawlUrl
\* A JSON value of a request body: a number, or a string of digits that
\* reads n.
JsNumber(n) == [type |-> "number", n |-> n]
JsString(n) == [type |-> "string", n |-> n]

\* v || ...: 0 is falsy, every string of digits is truthy.
Truthy(v) == v.type = "string" \/ v.n # 0

\* The number a comparison (depth > maxDepth, depth < maxDepth) reads in v.
ToNumber(v) == v.n

\* The JSON body of a submission: maxDepth absent ({}) or present ({v}).
DepthInputs == {{}} \cup {{JsNumber(v)} : v \in (-1)..MaxDepthInput}

\* The urlencoded body of a submission: every value is a string, and the
\* route does not look at its type.
FormInputs == {{}} \cup {{JsString(v)} : v \in 0..MaxDepthInput}

\* parseInt(process.env.CRAWLER_MAX_DEPTH) || 3
DefaultMaxDepth ==
  IF EnvCrawlerMaxDepth = 0 THEN FallbackMaxDepth ELSE EnvCrawlerMaxDepth

\* const crawlDepth = maxDepth || parseInt(process.env.CRAWLER_MAX_DEPTH) || 3
crawlDepthOf(body) ==
  IF body # {} /\ (\A v \in body : Truthy(v))
  THEN CHOOSE v \in body : TRUE
  ELSE JsNumber(DefaultMaxDepth)

\* const maxPages = parseInt(process.env.CRAWLER_MAX_PAGES) || 100
maxPages == EnvCrawlerMaxPages

\* while (queue.length > 0 && processedPages < maxPages)
LoopContinues(q, n) == Len(q) > 0 /\ n < maxPages

\* SkipEntry with the depth test dropped.
SkipVisitedOnly(e, visited, md) == e.url \in visited

\* if (visitedUrls.has(url) || depth > maxDepth) continue
SkipEntry(e, visited, md) == e.url \in visited \/ e.depth > md

\* SkipDisallowed with the robots answer ignored.
SkipDisallowedNever(isAllowed) == FALSE

\* if (!allowed) continue
SkipDisallowed(isAllowed) == ~isAllowed

\* FollowLinks with the depth test off by one.
FollowLinksAtBound(depth, md) == depth <= md

\* if (depth < maxDepth && pageData.links)
FollowLinks(depth, md) == depth < md

\* SameDomain with the host comparison dropped.
SameDomainAny(h, baseDomain) == TRUE

\* linkHostname === baseDomain, urlObj.hostname === baseDomain
SameDomain(h, baseDomain) == h = baseDomain

\* SitemapEntries with the entries pushed at depth 2.
SitemapEntriesDeeper(sm, baseDomain, dev, visited) ==
  LET Keep(x) == /\ IsValidUrl(x)
                 /\ x.host = baseDomain
                 /\ isAllowedDomain(dev, x.host)
                 /\ normalizeUrl(x) \notin visited
      kept == SelectSeq(sm, Keep)
  IN  [i \in 1..Len(kept) |-> [url |-> normalizeUrl(kept[i]), depth |-> 2]]

\* The sitemap loop: the entries pushed for the <loc> values sm.
SitemapEntries(sm, baseDomain, dev, visited) ==
  LET Keep(x) == /\ IsValidUrl(x)
                 /\ SameDomain(x.host, baseDomain)
                 /\ isAllowedDomain(dev, x.host)
                 /\ normalizeUrl(x) \notin visited
      kept == SelectSeq(sm, Keep)
  IN  [i \in 1..Len(kept) |-> [url |-> normalizeUrl(kept[i]), depth |-> 1]]

\* if (DEVELOPMENT_MODE === 'true' && linkUrl.hostname === 'host.docker.internal')
\*   linkUrl.hostname = 'localhost'
FinalLinkUrl(dev, link) ==
  IF dev /\ link.host = DockerHost THEN MkUrl(LocalHost, link.path, link.hash) ELSE link

\* The link loop: the entries pushed for the links of a page taken at `depth`.
LinkEntries(links, depth, baseDomain, dev, visited) ==
  LET Keep(x) == /\ IsValidUrl(x)
                 /\ SameDomain(FinalLinkUrl(dev, x).host, baseDomain)
                 /\ isAllowedDomain(dev, FinalLinkUrl(dev, x).host)
                 /\ normalizeUrl(FinalLinkUrl(dev, x)) \notin visited
      kept == SelectSeq(links, Keep)
  IN  [i \in 1..Len(kept) |->
         [url |-> normalizeUrl(FinalLinkUrl(dev, kept[i])), depth |-> depth + 1]]

\* crawlUrl(startUrl, maxDepth, crawlId) up to its first await (getBrowser).
StartCrawl(t, u, depth, cid) ==
  /\ crawlId' = [crawlId EXCEPT ![t] = cid]
  /\ normalizedStartUrl' = [normalizedStartUrl EXCEPT ![t] = normalizeUrl(u)]
  /\ maxDepth' = [maxDepth EXCEPT ![t] = depth]
  /\ pc' = [pc EXCEPT ![t] = IF browser = 0 THEN "launch" ELSE "running"]

\* Tasks are taken in order.
Unused(t) == pc[t] = "idle" /\ \A s \in Tasks : s < t => pc[s] # "idle"

\* Date.now() never runs backwards: a new crawlId is no smaller than a stored one.
\* The clock reads 1 at the first submission.
SubmitTimes ==
  IF jobDocs = {} THEN {1}
  ELSE {m \in 1..MaxMs : \A d \in jobDocs : d.id.cid.n <= m}

\* POST /submit of an authenticated caller, with a body of `bodies`.
SubmitWith(t, bodies) ==
  /\ UNCHANGED envVars
  /\ Unused(t)
  /\ \E u \in SeedInputs, body \in bodies, ms \in SubmitTimes, dbOk \in BOOLEAN :
       LET cid == [kind |-> "submit", n |-> ms] IN
       /\ IF dbOk /\ JobDocsWithId(SubmitDocId(cid)) = {}
          THEN /\ jobDocs' = jobDocs \cup
                     {[id |-> SubmitDocId(cid), status |-> "pending",
                       maxDepth |-> crawlDepthOf(body), pagesProcessed |-> -1,
                       log |-> <<"pending">>]}
               /\ StartCrawl(t, u, ToNumber(crawlDepthOf(body)), cid)
          ELSE /\ pc' = [pc EXCEPT ![t] = "http500"]
               /\ UNCHANGED <<jobDocs, paramVars>>
  /\ UNCHANGED <<devMode, browser, openPages, visitedUrls, robotsCache, pageDocs, nextUuid>>
  /\ UNCHANGED <<loopVars, histVars>>

\* express.json() parsed the body.
Submit(t) == SubmitWith(t, DepthInputs)

\* express.urlencoded() parsed the body.
SubmitForm(t) == SubmitWith(t, FormInputs)

\* runScheduledCrawls: one crawlUrl per origin of the stored pages.
ScheduledCrawl(t) ==
  /\ UNCHANGED envVars
  /\ Unused(t)
  /\ \E h \in {d.url.host : d \in pageDocs} :
       StartCrawl(t, MkUrl(h, <<>>, ""), DefaultMaxDepth, [kind |-> "scheduled", n |-> t])
  /\ UNCHANGED <<sharedVars, loopVars, histVars>>

\* getBrowser: puppeteer.launch() resolves or rejects.
Launch(t) ==
  /\ UNCHANGED envVars
  /\ pc[t] = "launch"
  /\ \E ok \in BOOLEAN :
       /\ browser' = IF ok THEN browser + 1 ELSE browser
       /\ pc' = [pc EXCEPT ![t] = IF ok THEN "running" ELSE "catch"]
  /\ UNCHANGED <<devMode, openPages, visitedUrls, robotsCache, jobDocs, pageDocs, nextUuid>>
  /\ UNCHANGED <<paramVars, loopVars, histVars>>

\* updateCrawlJob(running); queue = [seed]; getSitemapUrls is called.
SetRunning(t) ==
  /\ UNCHANGED envVars
  /\ pc[t] = "running"
  /\ \E dbOk \in BOOLEAN : jobDocs' = updateCrawlJob(crawlId[t], "running", -1, dbOk)
  /\ issued' = [issued EXCEPT ![t] = Append(@, [status |-> "running", pagesProcessed |-> -1])]
  /\ queue' = [queue EXCEPT ![t] = <<[url |-> normalizedStartUrl[t], depth |-> 0]>>]
  /\ pc' = [pc EXCEPT ![t] = "sitemap"]
  /\ UNCHANGED <<devMode, browser, openPages, visitedUrls, robotsCache, pageDocs, nextUuid>>
  /\ UNCHANGED <<paramVars, cur, processedPages, allowed, pageData, existing, response>>
  /\ UNCHANGED <<savedCount, known, rendered>>

\* getSitemapUrls resolves; the sitemap loop; getCrawlDelay is called.
Sitemap(t) ==
  /\ UNCHANGED envVars
  /\ pc[t] = "sitemap"
  /\ LET h == normalizedStartUrl[t].host IN
     \E txt \in RobotsTxts, sm \in SitemapLists(h) :
       /\ robotsCache' = [robotsCache EXCEPT ![h] = {getRobotsTxt(h, txt)}]
       /\ queue' = [queue EXCEPT ![t] = @ \o SitemapEntries(sm, h, devMode, visitedUrls)]
  /\ pc' = [pc EXCEPT ![t] = "delay"]
  /\ UNCHANGED <<devMode, browser, openPages, visitedUrls, jobDocs, pageDocs, nextUuid>>
  /\ UNCHANGED <<paramVars, cur, processedPages, allowed, pageData, existing, response, histVars>>

\* getCrawlDelay resolves.
CrawlDelay(t) ==
  /\ UNCHANGED envVars
  /\ pc[t] = "delay"
  /\ LET h == normalizedStartUrl[t].host IN
     \E txt \in RobotsTxts :
       robotsCache' = [robotsCache EXCEPT ![h] = {getRobotsTxt(h, txt)}]
  /\ pc' = [pc EXCEPT ![t] = "loop"]
  /\ UNCHANGED <<devMode, browser, openPages, visitedUrls, jobDocs, pageDocs, nextUuid>>
  /\ UNCHANGED <<paramVars, loopVars, histVars>>

\* Entry e, within the depth bound, names a URL whose stored page another
\* crawl wrote.
StoredByAnother(t, e) ==
  /\ e.depth <= maxDepth[t]
  /\ \E d \in pageDocs : d.url = e.url /\ d.crawlId # crawlId[t]

\* The loop test and one dequeue, up to `continue` or to isAllowedByRobots.
\* `allowed` is a const of the loop body: each iteration has its own.
LoopHead(t) ==
  /\ UNCHANGED envVars
  /\ pc[t] = "loop"
  /\ IF LoopContinues(queue[t], processedPages[t])
     THEN /\ queue' = [queue EXCEPT ![t] = Tail(@)]
          /\ cur' = [cur EXCEPT ![t] = Head(queue[t])]
          /\ allowed' = [allowed EXCEPT ![t] = FALSE]
          /\ pc' = [pc EXCEPT ![t] =
                      IF SkipEntry(Head(queue[t]), visitedUrls, maxDepth[t])
                      THEN "loop" ELSE "robots"]
          /\ known' = [known EXCEPT ![t] =
                         IF StoredByAnother(t, Head(queue[t]))
                         THEN @ \cup {Head(queue[t]).url} ELSE @]
     ELSE /\ pc' = [pc EXCEPT ![t] = "complete"]
          /\ UNCHANGED <<queue, cur, allowed, known>>
  /\ UNCHANGED <<sharedVars, paramVars, processedPages, pageData, existing, response>>
  /\ UNCHANGED <<issued, savedCount, rendered>>

\* isAllowedByRobots resolves; an allowed URL goes to fetchAndParsePage.
CheckRobots(t) ==
  /\ UNCHANGED envVars
  /\ pc[t] = "robots"
  /\ LET h == cur[t].url.host IN
     \E txt \in RobotsTxts :
       LET ok == isAllowedByRobots(getRobotsTxt(h, txt), cur[t].url) IN
       /\ robotsCache' = [robotsCache EXCEPT ![h] = {getRobotsTxt(h, txt)}]
       /\ allowed' = [allowed EXCEPT ![t] = ok]
       /\ pc' = [pc EXCEPT ![t] = IF SkipDisallowed(ok) THEN "loop" ELSE "newPage"]
  /\ UNCHANGED <<devMode, browser, openPages, visitedUrls, jobDocs, pageDocs, nextUuid>>
  /\ UNCHANGED <<paramVars, queue, cur, processedPages, pageData, existing, response>>
  /\ UNCHANGED histVars

\* xRobotsDirectives.includes(tok), robotsDirectives.includes(tok): the header
\* or the meta content, lower-cased, split at commas and trimmed, holds tok.
includes(directives, tok) == tok \in {toLowerCase(k) : k \in directives}

xRobotsNoindex(resp) ==
  includes(resp.xRobotsTag, "noindex") \/ includes(resp.xRobotsTag, "none")

xRobotsNofollow(resp) ==
  includes(resp.xRobotsTag, "nofollow") \/ includes(resp.xRobotsTag, "none")

xRobotsNosnippet(resp) == includes(resp.xRobotsTag, "nosnippet")

\* noindex without the `none` token.
noindexOnly(resp) == includes(resp.robotsMeta, "noindex")

noindex(resp) ==
  includes(resp.robotsMeta, "noindex") \/ includes(resp.robotsMeta, "none")

\* nofollow from the meta tag alone.
nofollowMetaOnly(resp) ==
  includes(resp.robotsMeta, "nofollow") \/ includes(resp.robotsMeta, "none")

nofollow(resp) ==
  \/ includes(resp.robotsMeta, "nofollow")
  \/ includes(resp.robotsMeta, "none")
  \/ xRobotsNofollow(resp)

\* nosnippet from the meta tag alone.
nosnippetMetaOnly(resp) == includes(resp.robotsMeta, "nosnippet")

nosnippet(resp) == includes(resp.robotsMeta, "nosnippet") \/ xRobotsNosnippet(resp)

\* fetchAndParsePage(url) once browser.newPage() has resolved: the value it
\* returns for what the site answered.
fetchAndParsePage(resp) ==
  IF resp.error # "none" THEN NullPage
  ELSE IF xRobotsNoindex(resp) THEN NullPage
  ELSE IF noindex(resp) THEN NullPage
  ELSE MkPage(IF nofollow(resp) THEN <<>> ELSE resp.links,
              nofollow(resp),
              nosnippet(resp),
              IF nosnippet(resp) THEN "" ELSE resp.description,
              resp.title,
              resp.body)

\* fetchAndParsePage(url): domain is new URL(url).hostname, of the URL it was
\* given.
domainOf(u) == u.host

\* What the site of host h can answer.
Served(h) ==
  IF served = "plain" THEN PlainResponses(h)
  ELSE PlainResponses(h) \cup DirectiveResponses(h)

\* Whether the path fetchAndParsePage takes for resp runs page.close(): the
\* finally covers the try's returns and its catch.
closesPageOnReturn(resp) == resp.error = "none"

closesPage(resp) == resp.error \in {"none", "goto"}

\* fetchAndParsePage(url), first line: browser.newPage() resolves with an open
\* page, or rejects, and fetchAndParsePage with it: the iteration's catch runs.
OpenPage(t) ==
  /\ UNCHANGED envVars
  /\ pc[t] = "newPage"
  /\ \E ok \in BOOLEAN :
       /\ openPages' = IF ok THEN openPages + 1 ELSE openPages
       /\ pc' = [pc EXCEPT ![t] = IF ok THEN "fetch" ELSE "loop"]
       /\ pageData' = [pageData EXCEPT ![t] = NullPage]
       /\ response' = [response EXCEPT ![t] = NoResponse]
  /\ UNCHANGED <<devMode, browser, visitedUrls, robotsCache, jobDocs, pageDocs, nextUuid>>
  /\ UNCHANGED <<paramVars, queue, cur, processedPages, allowed, existing>>

NewPage(t) == OpenPage(t) /\ UNCHANGED histVars

\* The same step, with the URL noted: once, or again if it was noted before.
NewPageSeen(t) ==
  /\ OpenPage(t)
  /\ rendered' = [rendered EXCEPT ![t] =
                    IF pc'[t] # "fetch" THEN @
                    ELSE IF cur[t].url \in @.once
                      THEN [@ EXCEPT !.again = @ \cup {cur[t].url}]
                    ELSE [@ EXCEPT !.once = @ \cup {cur[t].url}]]
  /\ UNCHANGED <<issued, savedCount, known>>

\* What fetchAndParsePage settles with once the page is open: the value of its
\* try or catch, unless page.close() in the finally rejects.
fetchAndParsePageCall(resp, closeOk) ==
  IF closeOk THEN Returns(fetchAndParsePage(resp)) ELSE Throws

\* The rest of fetchAndParsePage: it resolves with a page or null, or rejects;
\* a page goes to savePage, whose db.find is called.
FetchPage(t) ==
  /\ UNCHANGED envVars
  /\ pc[t] = "fetch"
  /\ \E resp \in Served(convertUrlForCrawling(devMode, cur[t].url).host), closeOk \in BOOLEAN :
       LET got == fetchAndParsePageCall(resp, closeOk) IN
       /\ openPages' = IF closesPage(resp) THEN openPages - 1 ELSE openPages
       /\ IF got.threw
          THEN /\ pageData' = [pageData EXCEPT ![t] = NullPage]
               /\ response' = [response EXCEPT ![t] = NoResponse]
               /\ pc' = [pc EXCEPT ![t] = "loop"]
          ELSE /\ pageData' = [pageData EXCEPT ![t] = got.value]
               /\ response' = [response EXCEPT ![t] = resp]
               /\ pc' = [pc EXCEPT ![t] = IF got.value.ok THEN "find" ELSE "sleep"]
  /\ UNCHANGED <<devMode, browser, visitedUrls, robotsCache, jobDocs, pageDocs, nextUuid>>
  /\ UNCHANGED <<paramVars, queue, cur, processedPages, allowed, existing>>
  /\ UNCHANGED histVars

\* Lines 155-187: after savePage returned, whether or not it stored the page.
AfterSave(t) ==
  /\ visitedUrls' = visitedUrls \cup {cur[t].url}
  /\ processedPages' = [processedPages EXCEPT ![t] = @ + 1]
  /\ queue' = [queue EXCEPT ![t] =
                 IF FollowLinks(cur[t].depth, maxDepth[t])
                 THEN @ \o LinkEntries(pageData[t].links, cur[t].depth,
                                       normalizedStartUrl[t].host, devMode,
                                       visitedUrls \cup {cur[t].url})
                 ELSE @]
  /\ pc' = [pc EXCEPT ![t] = "sleep"]

\* savePage: db.find({type: 'page', url}, limit 1) resolves or rejects.
FindPage(t) ==
  /\ UNCHANGED envVars
  /\ pc[t] = "find"
  /\ LET matches == {d \in pageDocs : d.url = cur[t].url} IN
     \E dbOk \in BOOLEAN,
        hit \in (IF matches = {} THEN {{}} ELSE {{d} : d \in matches}) :
       IF dbOk
       THEN /\ existing' = [existing EXCEPT ![t] = hit]
            /\ pc' = [pc EXCEPT ![t] = "insert"]
            /\ UNCHANGED <<visitedUrls, processedPages, queue>>
       ELSE /\ existing' = [existing EXCEPT ![t] = {}]
            /\ AfterSave(t)
  /\ UNCHANGED <<devMode, browser, openPages, robotsCache, jobDocs, pageDocs, nextUuid>>
  /\ UNCHANGED <<paramVars, cur, allowed, pageData, response, histVars>>

\* The document savePage builds: the found document's _id and _rev, or a new _id.
PageDocId(old, uuid) == IF old # {} THEN (CHOOSE d \in old : TRUE).id ELSE uuid

\* db.insert(doc) of the store: a document whose _id exists is replaced only
\* when doc._rev is its current revision (else 409).
InsertAccepted(old, dbOk) ==
  /\ dbOk
  /\ old # {} => \E d \in pageDocs : d.id = (CHOOSE o \in old : TRUE).id
                                    /\ d.rev = (CHOOSE o \in old : TRUE).rev

\* savePage: db.insert(doc) resolves or rejects; then lines 155-187.
InsertPage(t) ==
  /\ UNCHANGED envVars
  /\ pc[t] = "insert"
  /\ \E dbOk \in BOOLEAN :
       LET old == existing[t]
           id == PageDocId(old, nextUuid)
           doc == [id |-> id,
                   rev |-> IF old # {} THEN (CHOOSE o \in old : TRUE).rev + 1 ELSE 1,
                   url |-> cur[t].url,
                   domain |-> domainOf(convertUrlForCrawling(devMode, cur[t].url)),
                   crawlId |-> crawlId[t],
                   title |-> pageData[t].title,
                   content |-> pageData[t].content,
                   metaDescription |-> pageData[t].metaDescription,
                   nofollow |-> pageData[t].nofollow,
                   nosnippet |-> pageData[t].nosnippet]
       IN /\ pageDocs' = IF InsertAccepted(old, dbOk)
                         THEN {d \in pageDocs : d.id # id} \cup {doc}
                         ELSE pageDocs
          /\ savedCount' = [savedCount EXCEPT ![t] =
                              IF InsertAccepted(old, dbOk) THEN @ + 1 ELSE @]
          /\ nextUuid' = IF old # {} THEN nextUuid ELSE nextUuid + 1
  /\ existing' = [existing EXCEPT ![t] = {}]
  /\ AfterSave(t)
  /\ UNCHANGED <<devMode, browser, openPages, robotsCache, jobDocs>>
  /\ UNCHANGED <<paramVars, cur, allowed, pageData, response, issued, known, rendered>>

\* await sleep(delay) resolves.
Sleep(t) ==
  /\ UNCHANGED envVars
  /\ pc[t] = "sleep"
  /\ pc' = [pc EXCEPT ![t] = "loop"]
  /\ response' = [response EXCEPT ![t] = NoResponse]
  /\ UNCHANGED <<sharedVars, paramVars, histVars>>
  /\ UNCHANGED <<queue, cur, processedPages, allowed, pageData, existing>>

\* updateCrawlJob(completed, pagesProcessed); crawlQueues.delete(crawlId);
\* crawlUrl returns and its locals are gone.
Complete(t) ==
  /\ UNCHANGED envVars
  /\ pc[t] = "complete"
  /\ \E dbOk \in BOOLEAN :
       jobDocs' = updateCrawlJob(crawlId[t], "completed", processedPages[t], dbOk)
  /\ issued' = [issued EXCEPT ![t] =
                  Append(@, [status |-> "completed", pagesProcessed |-> processedPages[t]])]
  /\ pc' = [pc EXCEPT ![t] = "done"]
  /\ queue' = [queue EXCEPT ![t] = <<>>]
  /\ cur' = [cur EXCEPT ![t] = NoEntry]
  /\ pageData' = [pageData EXCEPT ![t] = NullPage]
  /\ allowed' = [allowed EXCEPT ![t] = FALSE]
  /\ UNCHANGED <<devMode, browser, openPages, visitedUrls, robotsCache, pageDocs, nextUuid>>
  /\ UNCHANGED <<paramVars, processedPages, existing, response, savedCount, known, rendered>>

\* The outer catch: updateCrawlJob(failed); crawlUrl returns.
Catch(t) ==
  /\ UNCHANGED envVars
  /\ pc[t] = "catch"
  /\ \E dbOk \in BOOLEAN :
       jobDocs' = updateCrawlJob(crawlId[t], "failed", -1, dbOk)
  /\ issued' = [issued EXCEPT ![t] = Append(@, [status |-> "failed", pagesProcessed |-> -1])]
  /\ pc' = [pc EXCEPT ![t] = "done"]
  /\ UNCHANGED <<devMode, browser, openPages, visitedUrls, robotsCache, pageDocs, nextUuid>>
  /\ UNCHANGED <<paramVars, loopVars, savedCount, known, rendered>>

Next ==
  \E t \in Tasks :
    \/ Submit(t)
    \/ ScheduledCrawl(t)
    \/ Launch(t)
    \/ SetRunning(t)
    \/ Sitemap(t)
    \/ CrawlDelay(t)
    \/ LoopHead(t)
    \/ CheckRobots(t)
    \/ NewPage(t)
    \/ FetchPage(t)
    \/ FindPage(t)
    \/ InsertPage(t)
    \/ Sleep(t)
    \/ Complete(t)
    \/ Catch(t)

Spec == Init /\ [][Next]_vars

\* One step of crawlUrl invocation t: one of its awaits resolves or rejects.
\* crawlUrl up to the call of fetchAndParsePage ...
BeforeOpen(t) ==
  \/ Launch(t)
  \/ SetRunning(t)
  \/ Sitemap(t)
  \/ CrawlDelay(t)
  \/ LoopHead(t)
  \/ CheckRobots(t)

\* ... and from page.goto on.
AfterOpen(t) ==
  \/ FetchPage(t)
  \/ FindPage(t)
  \/ InsertPage(t)
  \/ Sleep(t)
  \/ Complete(t)
  \/ Catch(t)

CrawlStep(t) == BeforeOpen(t) \/ NewPage(t) \/ AfterOpen(t)

\* Every promise a crawl awaits settles: the launch, a fetch, a robots query,
\* a storage call, a timer.  Submissions are the callers' and need not come.
FairSpec == Spec /\ \A t \in Tasks : WF_vars(CrawlStep(t))

\* ------------------------------------- one crawl of sites with directives
\* The sites serve pages with and without robots directives.
PageInit ==
  /\ CrawlerInit
  /\ served = "directives"
  /\ input = <<>>
  /\ output = <<>>

\* One submission and its crawl.
PageNext == Submit(1) \/ CrawlStep(1)

PageSpec == PageInit /\ [][PageNext]_vars

\* One submission, with a JSON or a urlencoded body, and its crawl of sites
\* that serve pages without robots directives.
DepthNext == Submit(1) \/ SubmitForm(1) \/ CrawlStep(1)

DepthSpec == Init /\ [][DepthNext]_vars

\* One submission whose body is `input`, and its crawl.
BodyInit ==
  /\ CrawlerInit
  /\ served = "plain"
  /\ input \in DepthInputs \cup FormInputs
  /\ output = <<>>

SubmitBody(t) == SubmitWith(t, {input})

BodyNext == SubmitBody(1) \/ CrawlStep(1)

BodySpec == BodyInit /\ [][BodyNext]_vars

\* One submission and its crawl, with the URLs it renders noted.
RenderNext == Submit(1) \/ BeforeOpen(1) \/ NewPageSeen(1) \/ AfterOpen(1)

RenderSpec == Init /\ [][RenderNext]_vars

\* ------------------------------------------------ normalizeUrl on its own
\* The longest pathname given to normalizeUrl.
MaxPathLen == 4

\* Pathnames of "/" and "x": the empty one, and those new URL() yields.
PathInputs ==
  {<<>>} \cup UNION { {p \in [1..n -> {"/", "x"}] : p[1] = "/"} : n \in 1..MaxPathLen }

UrlInputs == { MkUrl(h, p, f) : h \in Hosts, p \in PathInputs, f \in {"", "f"} }

\* u with one more slash at the end of its path, u with another fragment.
WithTrailingSlash(u) == MkUrl(u.host, ParsedPath(u) \o <<"/">>, u.hash)
WithFragment(u, f) == MkUrl(u.host, u.path, f)

\* Pairs of URLs that differ at most in the fragment or in a trailing slash.
UrlPairs ==
  UNION { { <<u, u>>, <<u, WithTrailingSlash(u)>>, <<u, WithFragment(u, "g")>> } :
          u \in UrlInputs }

NormalizeInit ==
  /\ CrawlerInit
  /\ served = "plain"
  /\ input \in UrlPairs
  /\ output = <<>>

\* normalizeUrl(u) and normalizeUrl(v) for the pair <<u, v>>.
ApplyNormalizeUrl ==
  /\ output = <<>>
  /\ output' = <<normalizeUrl(input[1]), normalizeUrl(input[2])>>
  /\ UNCHANGED <<sharedVars, pc, paramVars, loopVars, histVars, served, input, cacheVars, authVars>>

\* normalizeUrl applied to its own result.
ReapplyNormalizeUrl ==
  /\ Len(output) = 2
  /\ output' = Append(output, normalizeUrl(output[1]))
  /\ UNCHANGED <<sharedVars, pc, paramVars, loopVars, histVars, served, input, cacheVars, authVars>>

NormalizeNext == ApplyNormalizeUrl \/ ReapplyNormalizeUrl

NormalizeSpec == NormalizeInit /\ [][NormalizeNext]_vars

\* ------------------------------------------------------- services/search.js
\* A string is the sequence of its characters.
\* The number of page documents in the store when a search runs.
MaxSearchDocs == 2
\* The largest limit and offset a search is given.
MaxLimit == 2

\* db.find({selector, limit: 1000})
CandidateCap == 1000
\* generateSnippet(content, query, snippetLength = 200)
SnippetLength == 200

Ellipsis == <<".", ".", ".">>

\* The lower case of one character: "Idot" is U+0130, capital I with a dot
\* above, whose lower case is two code units, i and the combining dot.
lowerOf(ch) ==
  IF ch = "A" THEN <<"a">>
  ELSE IF ch = "Idot" THEN <<"i", "dot">>
  ELSE <<ch>>

RECURSIVE strLower(_)
\* String.prototype.toLowerCase
strLower(str) ==
  IF str = <<>> THEN <<>>
  ELSE IF Len(str) = 1 THEN lowerOf(str[1])
  ELSE strLower(SubSeq(str, 1, Len(str) \div 2))
         \o strLower(SubSeq(str, Len(str) \div 2 + 1, Len(str)))

\* String.prototype.indexOf: the 0-based place of the first occurrence, or -1.
indexOf(str, q) ==
  LET at == {i \in 0..(Len(str) - Len(q)) : SubSeq(str, i + 1, i + Len(q)) = q}
  IN  IF at = {} THEN -1 ELSE CHOOSE i \in at : \A j \in at : i <= j

\* String.prototype.includes
strIncludes(str, q) == indexOf(str, q) # -1

\* String.prototype.substring(from, to)
substring(str, from, to) == SubSeq(str, from + 1, to)

RECURSIVE splitAt(_, _)
\* str.split(sep) for a one-character separator.
splitAt(str, sep) ==
  LET i == indexOf(str, <<sep>>)
  IN  IF i = -1 THEN <<str>>
      ELSE <<substring(str, 0, i)>> \o splitAt(substring(str, i + 1, Len(str)), sep)

RECURSIVE skipSpaces(_)
skipSpaces(str) ==
  IF str # <<>> /\ Head(str) = " " THEN skipSpaces(Tail(str)) ELSE str

RECURSIVE splitWords(_)
\* str.split(/\s+/)
splitWords(str) ==
  LET i == indexOf(str, <<" ">>)
  IN  IF i = -1 THEN <<str>>
      ELSE <<substring(str, 0, i)>>
             \o splitWords(skipSpaces(substring(str, i, Len(str))))

RECURSIVE trimEnd(_)
trimEnd(str) ==
  IF str # <<>> /\ str[Len(str)] = " " THEN trimEnd(SubSeq(str, 1, Len(str) - 1)) ELSE str

\* String.prototype.trim
trim(str) == trimEnd(skipSpaces(str))

RECURSIVE countMatches(_, _)
\* (str.match(new RegExp(escapeRegex(q), 'g')) || []).length for a non-empty q
countMatches(str, q) ==
  LET i == indexOf(str, q)
  IN  IF i = -1 THEN 0
      ELSE 1 + countMatches(substring(str, i + Len(q), Len(str)), q)

\* Whether x is an entry of the sequence.
InSeq(seq, x) == \E i \in DOMAIN seq : seq[i] = x

\* Math.round(2 * Math.log(matches + 1) * 100), the score being kept in
\* hundredths.
TwiceLogHundredths(matches) ==
  CASE matches = 0 -> 0
    [] matches = 1 -> 139
    [] matches = 2 -> 220
    [] matches = 3 -> 277
    [] matches = 4 -> 322
    [] OTHER -> 358

Min(a, b) == IF a < b THEN a ELSE b
Max(a, b) == IF a > b THEN a ELSE b

\* calculateRelevance(doc, query), in hundredths.
calculateRelevance(doc, query) ==
  LET queryLower == strLower(query)
      queryWords == splitWords(queryLower)
      valid == IsValidUrl(doc.url)
      urlPath == IF valid THEN ParsedPath(doc.url) ELSE <<>>
      isHomePage == valid /\ (urlPath = <<"/">> \/ urlPath = <<>>)
      domainName == IF doc.domain = <<>> THEN <<>> ELSE <<doc.domain[1]>>
      home == IF ~isHomePage THEN 0
              ELSE IF queryLower = strLower(domainName)
                      \/ InSeq(queryWords, strLower(domainName))
                   THEN 100 ELSE 20
      NonEmpty(seg) == Len(seg) > 0
      pathDepth == Len(SelectSeq(splitAt(urlPath, "/"), NonEmpty))
      titleLower == strLower(doc.title)
      titleWords == splitWords(titleLower)
      InTitle(qw) == InSeq(titleWords, qw)
      title == IF doc.title # <<>> /\ titleLower = queryLower THEN 50
               ELSE IF doc.title # <<>> /\ strIncludes(titleLower, queryLower)
                    THEN Len(SelectSeq(queryWords, InTitle)) * 15
                    ELSE 0
      kws == splitAt(strLower(doc.metaKeywords), ",")
      keywords == [i \in DOMAIN kws |-> trim(kws[i])]
      keyword == IF doc.metaKeywords = <<>> THEN 0
                 ELSE IF \E i \in DOMAIN keywords : keywords[i] = queryLower THEN 30
                 ELSE IF \E i \in DOMAIN keywords : strIncludes(keywords[i], queryLower)
                      THEN 10 ELSE 0
      InDesc(qw) == strIncludes(strLower(doc.metaDescription), qw)
      desc == IF doc.metaDescription = <<>> THEN 0 ELSE Len(SelectSeq(queryWords, InDesc)) * 5
      author == IF doc.metaAuthor # <<>> /\ strIncludes(strLower(doc.metaAuthor), queryLower)
                THEN 5 ELSE 0
      matches == countMatches(strLower(doc.content), queryLower)
      content == IF doc.content = <<>> THEN 0
                 ELSE Min(matches, 10) * 100 + TwiceLogHundredths(matches)
  IN  (home - pathDepth * 2 + title + keyword + desc + author) * 100 + content

\* generateSnippet(content, query)
generateSnippet(content, query) ==
  LET index == indexOf(strLower(content), strLower(query))
      start == Max(0, index - SnippetLength \div 2)
      end == Min(Len(content), index + Len(query) + SnippetLength \div 2)
  IN  IF content = <<>> THEN <<>>
      ELSE IF index = -1 THEN substring(content, 0, Min(SnippetLength, Len(content))) \o Ellipsis
      ELSE (IF start > 0 THEN Ellipsis ELSE <<>>)
             \o substring(content, start, end)
             \o (IF end < Len(content) THEN Ellipsis ELSE <<>>)

\* The result entry with no regard to the nosnippet flag.
resultOfIgnoringNosnippet(doc, query) ==
  [url |-> doc.url, title |-> doc.title, domain |-> doc.domain,
   snippet |-> generateSnippet(doc.content, query),
   metaDescription |-> doc.metaDescription,
   metaKeywords |-> doc.metaKeywords, metaAuthor |-> doc.metaAuthor,
   score |-> calculateRelevance(doc, query), of |-> doc.id]

\* The entry searchContent makes of one document; `of` remembers the document.
resultOf(doc, query) ==
  [url |-> doc.url, title |-> doc.title, domain |-> doc.domain,
   snippet |-> IF doc.nosnippet THEN <<>> ELSE generateSnippet(doc.content, query),
   metaDescription |-> IF doc.nosnippet THEN <<>> ELSE doc.metaDescription,
   metaKeywords |-> doc.metaKeywords, metaAuthor |-> doc.metaAuthor,
   score |-> calculateRelevance(doc, query), of |-> doc.id]

\* The selector: a page whose title, content or metaDescription holds the
\* query in any case, of the given domain when one is given ({} is none).
Selected(doc, query, domain) ==
  /\ \/ strIncludes(strLower(doc.title), strLower(query))
     \/ strIncludes(strLower(doc.content), strLower(query))
     \/ strIncludes(strLower(doc.metaDescription), strLower(query))
  /\ domain # {} => doc.domain \in domain

RECURSIVE byId(_)
\* The documents of a set in the order the store returns them.
byId(docs) ==
  IF docs = {} THEN <<>>
  ELSE LET d == CHOOSE x \in docs : \A y \in docs : x.id <= y.id
       IN  <<d>> \o byId(docs \ {d})

\* The results left in the order the store returned them.
retrievalOrder(rs) == rs

RECURSIVE sortByScore(_)
\* results.sort((a, b) => b.score - a.score): stable, descending.
sortByScore(rs) ==
  IF rs = <<>> THEN <<>>
  ELSE LET best == CHOOSE i \in DOMAIN rs :
                     /\ \A j \in DOMAIN rs : rs[j].score <= rs[i].score
                     /\ \A j \in 1..(i - 1) : rs[j].score < rs[i].score
           rest == [j \in 1..(Len(rs) - 1) |-> IF j < best THEN rs[j] ELSE rs[j + 1]]
       IN  <<rs[best]>> \o sortByScore(rest)

\* Array.prototype.slice(from, to) with 0 <= from
slice(seq, from, to) == SubSeq(seq, from + 1, Min(to, Len(seq)))

\* searchContent({query, domain, limit, offset}) over the documents `docs`.
searchContent(docs, q) ==
  LET found == byId({d \in docs : Selected(d, q.query, q.domain)})
      capped == slice(found, 0, CandidateCap)
      results == sortByScore([i \in DOMAIN capped |-> resultOf(capped[i], q.query)])
  IN  [query |-> q.query, total |-> Len(results), limit |-> q.limit,
       offset |-> q.offset, results |-> slice(results, q.offset, q.offset + q.limit)]

\* The page documents a store can hold for a search.
SearchUrls == { MkUrl(YggHost, Root, ""), MkUrl(YggHost, PathX, "") }
SearchTitles == { <<"a">>, <<"A", " ", "b">> }
SearchContents == { <<"b">>, <<"a", " ", "b", " ", "a">> }
SearchDescriptions == { <<>>, <<"a">> }
SearchQueries == { <<"a">>, <<"A">>, <<"a", " ", "b">> }

SearchDocs(id) ==
  { [id |-> id, url |-> u, domain |-> u.host, title |-> ti, content |-> co,
     metaDescription |-> md, metaKeywords |-> <<"a", ",", " ", "b">>,
     metaAuthor |-> <<>>, nosnippet |-> ns] :
      u \in SearchUrls, ti \in SearchTitles, co \in SearchContents,
      md \in SearchDescriptions, ns \in BOOLEAN }

\* Stores of MaxSearchDocs documents or fewer, with identifiers 1, 2, ...
RECURSIVE SearchStores(_)
SearchStores(n) ==
  IF n = 0 THEN {{}}
  ELSE SearchStores(n - 1)
         \cup { st \cup {d} : st \in {x \in SearchStores(n - 1) : Cardinality(x) = n - 1},
                               d \in SearchDocs(n) }

SearchInputs ==
  { [query |-> q, domain |-> dm, limit |-> l, offset |-> o] :
      q \in SearchQueries, dm \in {{}, {YggHost}}, l \in 1..MaxLimit, o \in 0..MaxLimit }

SearchInit ==
  /\ CrawlerInit
  /\ devMode = FALSE
  /\ served = "plain"
  /\ input \in SearchInputs \X SearchStores(MaxSearchDocs)
  /\ output = <<>>

\* GET /api/search?q=...: searchContent resolves.
Search ==
  /\ output = <<>>
  /\ output' = <<searchContent(input[2], input[1])>>
  /\ UNCHANGED <<sharedVars, pc, paramVars, loopVars, histVars, served, input, cacheVars, authVars>>

SearchNext == Search

SearchSpec == SearchInit /\ [][SearchNext]_vars

\* --------------------------------------------- generateSnippet on its own
\* The longest run of other characters before and after the query.
MaxPad == 150

\* n times the character ch.
Pad(n, ch) == [i \in 1..n |-> ch]

PadLengths ==
  {0, 1, SnippetLength \div 2 - 1, SnippetLength \div 2, SnippetLength \div 2 + 1, MaxPad}

\* Page text and a query: text that holds the query once or twice, in either
\* case, between runs of other characters, and text without it.
SnippetInputs ==
  { [query |-> q, content |-> Pad(before, ch) \o m \o Pad(after, "x") \o again] :
      q \in {<<"a">>, <<"A", "b">>},
      m \in {<<"a">>, <<"A", "b">>, <<"a", "B">>, <<>>},
      before \in PadLengths, after \in PadLengths,
      ch \in {"x", "Idot"},
      again \in {<<>>, <<"a", "b">>} }

SnippetInit ==
  /\ CrawlerInit
  /\ devMode = FALSE
  /\ served = "plain"
  /\ input \in SnippetInputs
  /\ output = <<>>

\* generateSnippet(doc.content, query)
Snippet ==
  /\ output = <<>>
  /\ output' = <<generateSnippet(input.content, input.query)>>
  /\ UNCHANGED <<sharedVars, pc, paramVars, loopVars, histVars, served, input, cacheVars, authVars>>

SnippetNext == Snippet

SnippetSpec == SnippetInit /\ [][SnippetNext]_vars

\* ------------------------------------------- calculateRelevance on its own
\* The most words a query has.
MaxQueryWords == 4

RECURSIVE WordsOfA(_)
\* The query of n words "a", one space between them.
WordsOfA(n) == IF n = 1 THEN <<"a">> ELSE <<"a", " ">> \o WordsOfA(n - 1)

RelevanceQueries == {WordsOfA(n) : n \in 1..MaxQueryWords} \cup {<<"A">>, <<"a", " ", "b">>}

\* A query, a page, and three titles for it: one without the query, one that
\* holds it as a proper substring, one equal to it but for the case.
RelevanceInputs ==
  { [query |-> q, doc |-> d, none |-> n, sub |-> pre \o q \o post,
     exact |-> IF lower THEN strLower(q) ELSE q] :
      q \in RelevanceQueries,
      d \in {x \in SearchDocs(1) : ~x.nosnippet},
      n \in {<<>>, <<"x">>},
      pre \in {<<>>, <<"x", " ">>},
      post \in {<<" ", "x">>, <<"x">>},
      lower \in BOOLEAN }

RelevanceInit ==
  /\ CrawlerInit
  /\ devMode = FALSE
  /\ served = "plain"
  /\ input \in RelevanceInputs
  /\ output = <<>>

\* calculateRelevance(doc, query) for the page under each of the three titles.
Relevance ==
  /\ output = <<>>
  /\ output' = <<[none |-> calculateRelevance([input.doc EXCEPT !.title = input.none], input.query),
                   sub |-> calculateRelevance([input.doc EXCEPT !.title = input.sub], input.query),
                   exact |-> calculateRelevance([input.doc EXCEPT !.title = input.exact], input.query)]>>
  /\ UNCHANGED <<sharedVars, pc, paramVars, loopVars, histVars, served, input, cacheVars, authVars>>

RelevanceNext == Relevance

RelevanceSpec == RelevanceInit /\ [][RelevanceNext]_vars

\* ----------------------------------------------- services/robots.js alone
\* A robots.txt with a rule, a Crawl-delay and two sitemaps.
Restrictive == [disallow |-> {PathX}, crawlDelay |-> {2}, sitemaps |-> <<1, 2>>]

\* How a fetch of robots.txt can end.
RobotsAnswers ==
  { HttpAnswer(200, Restrictive), HttpAnswer(200, Permissive),
    HttpAnswer(404, <<>>), HttpAnswer(500, <<>>),
    NoAnswer("timeout"), NoAnswer("network") }

\* How a fetch of one sitemap of host h can end: its <loc> values, a document
\* without any, another status, no answer.
SitemapAnswers(h) ==
  { HttpAnswer(200, <<MkUrl(h, PathX, "")>>), HttpAnswer(200, <<>>),
    HttpAnswer(404, <<>>), NoAnswer("timeout") }

\* fetchSitemap(sitemapUrl, originalOrigin)
fetchSitemap(resp) ==
  LET r == axiosGet(resp, {200})
  IN  tryCatch(IF r.threw THEN Throws ELSE Returns(resp.data), <<>>)

RECURSIVE concatAll(_)
concatAll(seqs) == IF seqs = <<>> THEN <<>> ELSE Head(seqs) \o concatAll(Tail(seqs))

\* getSitemapUrls(origin), got being what getRobotsTxt(origin) ended with: the
\* default sitemap (answer 1) when the parser lists none, else every listed one.
getSitemapUrls(got, answers) ==
  LET parser == got.value
      fetched == IF parser.sitemaps = <<>> THEN <<fetchSitemap(answers[1])>>
                 ELSE [i \in DOMAIN parser.sitemaps |-> fetchSitemap(answers[parser.sitemaps[i]])]
  IN  tryCatch(
        IF got.threw \/ \E i \in DOMAIN fetched : fetched[i].threw THEN Throws
        ELSE Returns(concatAll([i \in DOMAIN fetched |-> fetched[i].value])),
        <<>>)

\* isAllowedByRobots(url), got being what getRobotsTxt ended with.
isAllowedByRobotsCall(got, u) ==
  tryCatch(IF IsValidUrl(u) /\ ~got.threw
           THEN Returns(isAllowedByRobots(got.value, u)) ELSE Throws,
           TRUE)

\* getCrawlDelay(url), got being what getRobotsTxt ended with:
\* parser.getCrawlDelay(userAgent) || 0
getCrawlDelay(got, u) ==
  tryCatch(IF IsValidUrl(u) /\ ~got.threw
           THEN Returns(IF got.value.crawlDelay = {} THEN 0
                        ELSE CHOOSE n \in got.value.crawlDelay : TRUE)
           ELSE Throws,
           0)

\* The ages (ms) of a cache entry at a call.
CacheAges == {0, CACHE_TTL - 1, CACHE_TTL}

\* crawlUrl passes getSitemapUrls the origin of a URL it has parsed.
RobotsInputs ==
  { in \in
      [fn : {"isAllowed", "crawlDelay", "sitemapUrls"},
       url : {MkUrl(YggHost, PathX, ""), MkUrl(YggHost, Root, ""), InvalidUrl},
       cached : {{}, {Restrictive}},
       age : CacheAges,
       robots : RobotsAnswers,
       sitemaps : [1..2 -> SitemapAnswers(YggHost)]] :
      in.fn = "sitemapUrls" => IsValidUrl(in.url) }

\* The module may hold an entry for the host from an earlier call.
RobotsInit ==
  /\ IdleInit
  /\ devMode = FALSE
  /\ bypassAuth = FALSE
  /\ served = "plain"
  /\ input \in RobotsInputs
  /\ robotsCache = [h \in Hosts |-> IF h = YggHost THEN input.cached ELSE {}]
  /\ output = <<>>

\* What getRobotsTxt ends with in a call for a URL of YggHost.  new URL(url)
\* comes first: getRobotsTxt is not reached with a string it rejects.
gotRobotsTxt ==
  IF IsValidUrl(input.url)
  THEN getRobotsTxtAt(YggHost, input.age, input.robots) ELSE Throws

\* One call of a function robots.js exports, ending with result.
RobotsCall(result) ==
  /\ output = <<>>
  /\ robotsCache' = IF gotRobotsTxt.threw THEN robotsCache
                    ELSE [robotsCache EXCEPT ![YggHost] = {gotRobotsTxt.value}]
  /\ output' = <<result>>
  /\ UNCHANGED <<devMode, browser, openPages, visitedUrls, jobDocs, pageDocs, nextUuid>>
  /\ UNCHANGED <<pc, paramVars, loopVars, histVars, served, input, cacheVars, authVars>>

IsAllowedCall ==
  /\ input.fn = "isAllowed"
  /\ RobotsCall(isAllowedByRobotsCall(gotRobotsTxt, input.url))

CrawlDelayCall ==
  /\ input.fn = "crawlDelay"
  /\ RobotsCall(getCrawlDelay(gotRobotsTxt, input.url))

SitemapUrlsCall ==
  /\ input.fn = "sitemapUrls"
  /\ RobotsCall(getSitemapUrls(gotRobotsTxt, input.sitemaps))

RobotsNext == IsAllowedCall \/ CrawlDelayCall \/ SitemapUrlsCall

RobotsSpec == RobotsInit /\ [][RobotsNext]_vars

\* ------------------------------------------ the robots cache over time
\* The half days the clock runs for.
MaxHalfDays == 4

\* The origins queried.
CacheHosts == {YggHost, ClearHost}

CacheInit ==
  /\ CrawlerInit
  /\ devMode = FALSE
  /\ served = "plain"
  /\ input = <<>>
  /\ output = <<>>

\* Time passes: half of CACHE_TTL.
Tick ==
  /\ 2 * now < MaxHalfDays * CACHE_TTL
  /\ now' = now + CACHE_TTL \div 2
  /\ UNCHANGED <<sharedVars, pc, paramVars, loopVars, histVars, served, input, output, authVars>>
  /\ UNCHANGED <<timestamp, querying>>

\* A caller (isAllowedByRobots, getCrawlDelay or getSitemapUrls of crawl t)
\* enters getRobotsTxt(origin): a fresh entry is returned, else axios.get is
\* called and awaited.
QueryRobots(t, h) ==
  /\ querying[t] = NoQuery
  /\ querying' = [querying EXCEPT ![t] =
                     [host |-> h,
                      at |-> IF cachedFresh(h, now - timestamp[h]) THEN "return" ELSE "get",
                      caught |-> FALSE]]
  /\ UNCHANGED <<sharedVars, pc, paramVars, loopVars, histVars, served, input, output, authVars>>
  /\ UNCHANGED <<timestamp, now>>

\* axios.get settles: the parser of the answer, or the permissive one of the
\* catch, is stored with the time it is now, and returned.  `caught` tells
\* that the catch block ran.
FetchedRobots(t) ==
  /\ querying[t].at = "get"
  /\ \E resp \in RobotsAnswers :
       /\ robotsCache' = [robotsCache EXCEPT ![querying[t].host] =
                            {tryCatch(fetchRobotsTxt(resp), Permissive).value}]
       /\ querying' = [querying EXCEPT ![t] =
                         [@ EXCEPT !.at = "return", !.caught = fetchRobotsTxt(resp).threw]]
  /\ timestamp' = [timestamp EXCEPT ![querying[t].host] = now]
  /\ UNCHANGED <<devMode, browser, openPages, visitedUrls, jobDocs, pageDocs, nextUuid>>
  /\ UNCHANGED <<pc, paramVars, loopVars, histVars, served, input, output, now, authVars>>

\* getRobotsTxt has returned its parser to the caller.
ReturnRobots(t) ==
  /\ querying[t].at = "return"
  /\ querying' = [querying EXCEPT ![t] = NoQuery]
  /\ UNCHANGED <<sharedVars, pc, paramVars, loopVars, histVars, served, input, output, authVars>>
  /\ UNCHANGED <<timestamp, now>>

CacheNext ==
  \/ Tick
  \/ \E t \in Tasks :
       \/ \E h \in CacheHosts : QueryRobots(t, h)
       \/ FetchedRobots(t)
       \/ ReturnRobots(t)

CacheSpec == CacheInit /\ [][CacheNext]_vars

\* ------------------------------------- middleware/auth.js, routes/auth.js
\* What the middleware does with a request: next() with req.user set, or a
\* response with a status.
Admit(user) == [next |-> TRUE, status |-> 0, user |-> user]
Refuse(status) == [next |-> FALSE, status |-> status, user |-> 0]

\* req.user of the development bypass, 'dev-user'.
DevUser == MaxSessions + 1

requireAuthBypassAlone(dev, bypass, session) ==
  IF bypass THEN Admit(DevUser)
  ELSE IF session.user # 0 THEN Admit(session.user)
  ELSE Refuse(401)

requireAuth(dev, bypass, session) ==
  IF dev /\ bypass THEN Admit(DevUser)
  ELSE IF session.user # 0 THEN Admit(session.user)
  ELSE Refuse(401)

\* The code and state parameters of a callback's query; 0 is a missing one.
CodeParams == 0..MaxCodes
StateParams == 0..MaxLogins

AuthInit ==
  /\ IdleInit
  /\ robotsCache = [h \in Hosts |-> {}]
  /\ bypassAuth \in BOOLEAN
  /\ served = "plain"
  /\ input = <<>>
  /\ output = <<>>

\* GET /login with the cookie of session s: a new state and code verifier are
\* put in the session, and the session is saved, or the save fails.
Login(s) ==
  /\ ~(devMode /\ bypassAuth)
  /\ nextState <= MaxLogins
  /\ nextState' = nextState + 1
  /\ \E saved \in BOOLEAN :
       sessionStore' =
         IF saved
         THEN [sessionStore EXCEPT ![s] =
                 [@ EXCEPT !.oidc_state = nextState, !.oidc_code_verifier = nextState]]
         ELSE sessionStore
  /\ UNCHANGED <<sharedVars, pc, paramVars, loopVars, histVars, served, input, output, cacheVars>>
  /\ UNCHANGED <<bypassAuth, callbacks, redeemed, unauthorized>>

\* Requests are taken in order.
NextRequest(r) ==
  callbacks[r].at = "idle" /\ \A q \in Requests : q < r => callbacks[q].at # "idle"

\* GET /callback with the cookie of session s, up to its first await or its
\* response: req.session is what the store holds for s when the request comes.
CallbackArrives(r, s) ==
  /\ NextRequest(r)
  /\ \E code \in CodeParams, state \in StateParams :
       LET session == sessionStore[s]
           req == [at |-> "done", sid |-> s, session |-> session,
                   code |-> code, state |-> state, outcome |-> "none"]
       IN  callbacks' = [callbacks EXCEPT ![r] =
             IF devMode /\ bypassAuth THEN [req EXCEPT !.outcome = "bypass"]
             ELSE IF session.oidc_state = 0 /\ state # 0 THEN [req EXCEPT !.at = "wait"]
             ELSE IF state = 0 \/ state # session.oidc_state
               THEN [req EXCEPT !.outcome = "invalidState"]
             ELSE IF code = 0 THEN [req EXCEPT !.outcome = "missingCode"]
             ELSE [req EXCEPT !.at = "exchange"]]
  /\ UNCHANGED <<sharedVars, pc, paramVars, loopVars, histVars, served, input, output, cacheVars>>
  /\ UNCHANGED <<bypassAuth, sessionStore, nextState, redeemed, unauthorized>>

\* The 100 ms wait for the session is over: req.session is the object it was,
\* so the session is destroyed and the caller sent to /login.
CallbackDestroys(r) ==
  /\ callbacks[r].at = "wait"
  /\ callbacks' = [callbacks EXCEPT ![r] = [@ EXCEPT !.at = "done", !.outcome = "login"]]
  /\ sessionStore' = [sessionStore EXCEPT ![callbacks[r].sid] = NoSession]
  /\ UNCHANGED <<sharedVars, pc, paramVars, loopVars, histVars, served, input, output, cacheVars>>
  /\ UNCHANGED <<bypassAuth, nextState, redeemed, unauthorized>>

\* The 3 s wait is over: the code is sent to the token endpoint, which
\* exchanges a code once, and the user is asked for at the userinfo endpoint.
\* With both answers the request's session gets the user and loses the state
\* and the verifier, and is saved as the response ends.
CallbackExchanges(r) ==
  /\ callbacks[r].at = "exchange"
  /\ \E valid \in BOOLEAN, userInfoOk \in BOOLEAN :
       LET req == callbacks[r]
           tokenOk == valid /\ req.code \notin redeemed
           session == [req.session EXCEPT !.user = req.sid,
                                          !.oidc_state = 0, !.oidc_code_verifier = 0]
       IN  /\ redeemed' = IF tokenOk THEN redeemed \cup {req.code} ELSE redeemed
           /\ IF tokenOk /\ userInfoOk
              THEN /\ callbacks' = [callbacks EXCEPT ![r] =
                         [req EXCEPT !.at = "done", !.outcome = "signedIn",
                                     !.session = session]]
                   /\ sessionStore' = [sessionStore EXCEPT ![req.sid] = session]
              ELSE /\ callbacks' = [callbacks EXCEPT ![r] =
                         [req EXCEPT !.at = "done", !.outcome = "failed"]]
                   /\ UNCHANGED sessionStore
  /\ UNCHANGED <<sharedVars, pc, paramVars, loopVars, histVars, served, input, output, cacheVars>>
  /\ UNCHANGED <<bypassAuth, nextState, unauthorized>>

\* GET /logout with the cookie of session s.
Logout(s) ==
  /\ sessionStore[s] # NoSession
  /\ sessionStore' = [sessionStore EXCEPT ![s] = NoSession]
  /\ UNCHANGED <<sharedVars, pc, paramVars, loopVars, histVars, served, input, output, cacheVars>>
  /\ UNCHANGED <<bypassAuth, nextState, callbacks, redeemed, unauthorized>>

\* POST /api/crawler/submit with the cookie of session s: requireAuth calls
\* the handler ...
PostSubmit(t, s) ==
  /\ requireAuth(devMode, bypassAuth, sessionStore[s]).next
  /\ Submit(t)

\* ... or answers 401.
Unauthorized(s) ==
  /\ ~requireAuth(devMode, bypassAuth, sessionStore[s]).next
  /\ s \notin unauthorized
  /\ unauthorized' = unauthorized \cup {s}
  /\ UNCHANGED <<sharedVars, pc, paramVars, loopVars, histVars, served, input, output, cacheVars>>
  /\ UNCHANGED <<bypassAuth, sessionStore, nextState, callbacks, redeemed>>

AuthNext ==
  \E s \in Sids :
    \/ Login(s)
    \/ \E r \in Requests : CallbackArrives(r, s)
    \/ \E r \in Requests : CallbackDestroys(r)
    \/ \E r \in Requests : CallbackExchanges(r)
    \/ Logout(s)
    \/ PostSubmit(1, s)
    \/ Unauthorized(s)

AuthSpec == AuthInit /\ [][AuthNext]_vars

\* ================================================================ claims
Submitted(t) == crawlId[t].kind = "submit"

\* The record POST /submit created for task t's crawlId.
SubmitRecord(t) == JobDocsWithId(SubmitDocId(crawlId[t]))

\* What GET /status/:crawlId returns for task t's crawlId.
StatusRecord(t) == JobDocsWithId(StatusDocId(crawlId[t]))

\* The cached robots record of host h allows u.
CacheAllows(h, u) ==
  robotsCache[h] # {} /\ \A r \in robotsCache[h] : isAllowedByRobots(r, u)

\* C1: once crawl() has returned, the status values persisted in the job's
\* record are exactly pending, running, then completed or failed.
C1_StatusSequence ==
  \A t \in Tasks :
    (pc[t] = "done" /\ Submitted(t)) =>
      \A d \in SubmitRecord(t) :
        d.log \in { <<"pending", "running", "completed">>,
                    <<"pending", "running", "failed">> }

\* C2: once crawl() has returned, the status operation with the returned
\* crawlId yields completed or failed, never pending.
C2_StatusAfterCrawl ==
  \A t \in Tasks :
    (pc[t] = "done" /\ Submitted(t)) =>
      /\ StatusRecord(t) # {}
      /\ \A d \in StatusRecord(t) : d.status \in {"completed", "failed"}

\* C3: the store holds at most one page document per normalized URL.
C3_OnePagePerUrl ==
  \A d1, d2 \in pageDocs : d1.url = d2.url => d1.id = d2.id

\* C4: a URL that a crawl dequeued while another crawl's page for it was
\* stored has, once the crawl has returned, exactly one page document, and that
\* document carries the dequeuing crawl's crawlId.
C4_RecrawlUpdatesInPlace ==
  \A t \in Tasks :
    pc[t] = "done" =>
      \A u \in known[t] :
        \A d \in pageDocs : d.url = u => d.crawlId = crawlId[t]

\* C5: every URL given to the renderer, and every URL persisted, has a
\* hostname that passes the domain allow-list.
C5_OnlyAdmittedHosts ==
  /\ \A t \in Tasks : pc[t] = "fetch" => isAllowedDomain(devMode, cur[t].url.host)
  /\ \A d \in pageDocs : isAllowedDomain(devMode, d.url.host)

\* C6: a URL is given to the renderer only when the robots check of the same
\* iteration allowed it; a disallowed URL goes back to the loop head with the
\* visited-set, the page count, the store and the job's updates untouched.
C6_RobotsGate ==
  /\ [](\A t \in Tasks :
          pc[t] = "fetch" => allowed[t] /\ CacheAllows(cur[t].url.host, cur[t].url))
  /\ [][\A t \in Tasks :
          (pc[t] = "robots" /\ pc'[t] # "robots" /\ ~allowed'[t]) =>
            /\ pc'[t] = "loop"
            /\ visitedUrls' = visitedUrls
            /\ processedPages'[t] = processedPages[t]
            /\ pageDocs' = pageDocs
            /\ issued'[t] = issued[t]
            /\ jobDocs' = jobDocs]_vars

\* A task is back at the loop head with an entry that robots refused.
C6_Witness ==
  \E t \in Tasks :
    /\ pc[t] = "loop"
    /\ cur[t] # NoEntry
    /\ cur[t].url \notin visitedUrls
    /\ cur[t].depth <= maxDepth[t]
    /\ robotsCache[cur[t].url.host] # {}
    /\ ~CacheAllows(cur[t].url.host, cur[t].url)
    /\ processedPages[t] = 0

\* C7: nothing is fetched or persisted at a depth above maxDepth, and the
\* links of a page taken at depth maxDepth (or deeper) are not enqueued.
C7_DepthBound ==
  /\ [](\A t \in Tasks :
          pc[t] \in {"fetch", "find", "insert"} => cur[t].depth <= maxDepth[t])
  /\ [][\A t \in Tasks :
          (pc[t] \in {"find", "insert"} /\ pc'[t] = "sleep"
             /\ cur[t].depth >= maxDepth[t]) =>
            queue'[t] = queue[t]]_vars

\* A page taken at depth maxDepth was stored, and it held a link that would
\* have been enqueued from a shallower page.
C7_Witness ==
  \E t \in Tasks :
    /\ pc[t] = "sleep"
    /\ cur[t].depth = maxDepth[t]
    /\ savedCount[t] > 0
    /\ LinkEntries(pageData[t].links, cur[t].depth, normalizedStartUrl[t].host,
                   devMode, visitedUrls) # <<>>

\* C8: every page document carries a URL on the host of the normalized seed
\* of the crawl that wrote it.
C8_DomainConfinement ==
  \A d \in pageDocs : \A t \in Tasks :
    d.crawlId = crawlId[t] => d.url.host = normalizedStartUrl[t].host

\* A crawl stored a page that links to another host and followed its links.
C8_Witness ==
  \E t \in Tasks :
    /\ pc[t] = "sleep"
    /\ FollowLinks(cur[t].depth, maxDepth[t])
    /\ \E d \in pageDocs : d.crawlId = crawlId[t] /\ d.url = cur[t].url
    /\ \E i \in DOMAIN pageData[t].links :
         /\ FinalLinkUrl(devMode, pageData[t].links[i]).host # normalizedStartUrl[t].host
         /\ isAllowedDomain(devMode, FinalLinkUrl(devMode, pageData[t].links[i]).host)

\* C9: the pagesProcessed a crawl reports with `completed` is the number of
\* page documents the store accepted from it.
C9_CountIsStored ==
  \A t \in Tasks :
    \A i \in DOMAIN issued[t] :
      issued[t][i].status = "completed" => issued[t][i].pagesProcessed = savedCount[t]

\* C10: the page count never exceeds the ceiling, nothing is fetched once it
\* equals the ceiling, and a crawl that reached the ceiling ends with its job
\* record completed.
C10_PageCeiling ==
  \A t \in Tasks :
    /\ processedPages[t] <= maxPages
    /\ pc[t] \in {"robots", "fetch"} => processedPages[t] < maxPages
    /\ (pc[t] = "done" /\ Submitted(t) /\ processedPages[t] = maxPages) =>
         /\ StatusRecord(t) # {}
         /\ \A d \in StatusRecord(t) : d.status = "completed"

\* C10, the part that is about crawlUrl's own counter and control flow.
PageCeilingInMemory ==
  \A t \in Tasks :
    /\ processedPages[t] <= maxPages
    /\ pc[t] \in {"robots", "fetch"} => processedPages[t] < maxPages
    /\ (pc[t] = "done" /\ processedPages[t] = maxPages) =>
         issued[t][Len(issued[t])].status = "completed"

\* crawlUrl invocation t has been called and has not returned.
InCrawl(t) == pc[t] \notin {"idle", "http500", "done"}

\* C11: every crawl invocation eventually leaves its loop and writes a terminal
\* status (completed or failed) to its job record.
C11_TerminalStatusWritten ==
  \A t \in Tasks :
    (InCrawl(t) /\ Submitted(t)) ~>
      (/\ pc[t] = "done"
       /\ \E d \in SubmitRecord(t) : d.status \in {"completed", "failed"})

\* C11, the part that is about crawlUrl's control flow: every invocation
\* returns, having called updateCrawlJob with completed or failed last.
CrawlReturns ==
  \A t \in Tasks :
    InCrawl(t) ~>
      (/\ pc[t] = "done"
       /\ issued[t][Len(issued[t])].status \in {"completed", "failed"})

\* C12: a null extraction result or an exception in one iteration leaves the
\* crawl in its loop with no status update issued, and a crawl whose loop ended
\* has its job record completed.
C12_FailuresDoNotFailJob ==
  /\ [][\A t \in Tasks :
          (pc[t] = "fetch" /\ pc'[t] # "fetch" /\ ~pageData'[t].ok) =>
            /\ pc'[t] \in {"sleep", "loop"}
            /\ issued'[t] = issued[t]]_vars
  /\ [](\A t \in Tasks :
          (/\ pc[t] = "done"
           /\ Submitted(t)
           /\ issued[t][Len(issued[t])].status = "completed") =>
            /\ StatusRecord(t) # {}
            /\ \A d \in StatusRecord(t) : d.status = "completed")

\* C12, the part that is about crawlUrl's control flow: a failed iteration goes
\* on to the next loop test, and `failed` is issued only for a browser that did
\* not launch, before any iteration.
FailuresStayInLoop ==
  /\ [][\A t \in Tasks :
          (pc[t] = "fetch" /\ pc'[t] # "fetch" /\ ~pageData'[t].ok) =>
            /\ pc'[t] \in {"sleep", "loop"}
            /\ issued'[t] = issued[t]]_vars
  /\ [](\A t \in Tasks : \A i \in DOMAIN issued[t] :
          issued[t][i].status = "failed" => Len(issued[t]) = 1)

\* C13: normalizeUrl(normalizeUrl(u)) = normalizeUrl(u).
C13_NormalizeIdempotent ==
  Len(output) = 3 => output[3] = output[1]

\* C14: two URLs that differ only in the fragment or in a trailing slash have
\* the same normalized form, and an empty path is normalized to "/".
C14_SameKey ==
  Len(output) >= 2 =>
    /\ output[1] = output[2]
    /\ input[1].path = <<>> => output[1].path = Root

\* The header or the meta tag of a fetched page holds the token, in any case.
Asserts(resp, tok) ==
  \E k \in resp.xRobotsTag \cup resp.robotsMeta : toLowerCase(k) = tok

AssertsNoindex(resp) == Asserts(resp, "noindex") \/ Asserts(resp, "none")
AssertsNofollow(resp) == Asserts(resp, "nofollow") \/ Asserts(resp, "none")
AssertsNosnippet(resp) == Asserts(resp, "nosnippet")

\* The site answered the fetch of task t's current iteration.
Fetched(t) == response[t].error = "none"

\* The page documents a step writes.
Written == pageDocs' \ pageDocs

\* C15: when the header or the meta tag asserts noindex (or none),
\* fetchAndParsePage returns null, and the iteration writes no page document,
\* leaves the page count and the visited-set as they are and enqueues nothing.
C15_NoindexSkipsPage ==
  /\ [](\A t \in Tasks :
          (Fetched(t) /\ AssertsNoindex(response[t])) =>
            ~pageData[t].ok /\ pc[t] = "sleep")
  /\ [][\A t \in Tasks :
          (\/ Fetched(t) /\ AssertsNoindex(response[t])
           \/ response'[t].error = "none" /\ AssertsNoindex(response'[t])) =>
            /\ pageDocs' = pageDocs
            /\ processedPages'[t] = processedPages[t]
            /\ visitedUrls' = visitedUrls
            /\ queue'[t] = queue[t]]_vars

\* A page at a depth whose links are followed asserted `none` in its meta tag
\* alone, held links that would be enqueued, and was skipped.
C15_Witness ==
  \E t \in Tasks :
    /\ pc[t] = "sleep"
    /\ Fetched(t)
    /\ response[t].xRobotsTag = {}
    /\ response[t].robotsMeta = {"none"}
    /\ FollowLinks(cur[t].depth, maxDepth[t])
    /\ LinkEntries(response[t].links, cur[t].depth, normalizedStartUrl[t].host,
                   devMode, visitedUrls) # <<>>
    /\ ~pageData[t].ok

\* C16 as stated: whenever the header or the meta tag asserts nofollow (or
\* none), fetchAndParsePage returns a page with no links and nofollow true,
\* which goes to savePage.
C16_NofollowAlwaysPersists ==
  \A t \in Tasks :
    (Fetched(t) /\ AssertsNofollow(response[t])) =>
      /\ pageData[t].ok
      /\ pageData[t].links = <<>>
      /\ pageData[t].nofollow

\* C16, amended: when the header or the meta tag asserts nofollow and neither
\* asserts noindex or none, fetchAndParsePage returns a page with no links and
\* nofollow true, the page goes to savePage, what the store accepts of it
\* carries nofollow true, and the iteration enqueues nothing.
C16_NofollowKeepsPage ==
  /\ [](\A t \in Tasks :
          (Fetched(t) /\ AssertsNofollow(response[t]) /\ ~AssertsNoindex(response[t])) =>
            /\ pageData[t].ok
            /\ pageData[t].links = <<>>
            /\ pageData[t].nofollow
            /\ pc[t] \in {"find", "insert", "sleep"})
  /\ [][\A t \in Tasks :
          (Fetched(t) /\ AssertsNofollow(response[t]) /\ ~AssertsNoindex(response[t])) =>
            /\ queue'[t] = queue[t]
            /\ pc[t] = "find" => pc'[t] \in {"insert", "sleep"}
            /\ \A d \in Written : d.url = cur[t].url /\ d.nofollow]_vars

\* A page at a depth whose links are followed asserted nofollow in its header
\* alone, held links that would be enqueued, and was stored.
C16_Witness ==
  \E t \in Tasks :
    /\ pc[t] = "sleep"
    /\ Fetched(t)
    /\ response[t].xRobotsTag = {"nofollow"}
    /\ response[t].robotsMeta = {}
    /\ FollowLinks(cur[t].depth, maxDepth[t])
    /\ LinkEntries(response[t].links, cur[t].depth, normalizedStartUrl[t].host,
                   devMode, visitedUrls) # <<>>
    /\ \E d \in pageDocs : d.url = cur[t].url /\ d.crawlId = crawlId[t] /\ d.nofollow
    /\ queue[t] = <<>>

\* The response without its nosnippet tokens.
WithoutNosnippet(resp) ==
  [resp EXCEPT !.xRobotsTag = {k \in @ : toLowerCase(k) # "nosnippet"},
               !.robotsMeta = {k \in @ : toLowerCase(k) # "nosnippet"}]

\* C17: when the header or the meta tag asserts nosnippet, the page returned,
\* and the document stored from it, has an empty metaDescription and nosnippet
\* true, and the content and title it has without the directive.
C17_NosnippetEmptiesDescription ==
  /\ [](\A t \in Tasks :
          (Fetched(t) /\ AssertsNosnippet(response[t]) /\ pageData[t].ok) =>
            /\ pageData[t].metaDescription = ""
            /\ pageData[t].nosnippet
            /\ pageData[t].content = fetchAndParsePage(WithoutNosnippet(response[t])).content
            /\ pageData[t].title = fetchAndParsePage(WithoutNosnippet(response[t])).title)
  /\ [][\A t \in Tasks :
          (Fetched(t) /\ AssertsNosnippet(response[t]) /\ pageData[t].ok) =>
            \A d \in Written :
              /\ d.url = cur[t].url
              /\ d.metaDescription = ""
              /\ d.nosnippet
              /\ d.content = fetchAndParsePage(WithoutNosnippet(response[t])).content
              /\ d.title = fetchAndParsePage(WithoutNosnippet(response[t])).title]_vars

\* A page with a description asserted nosnippet in its header alone and was
\* stored.
C17_Witness ==
  \E t \in Tasks :
    /\ pc[t] = "sleep"
    /\ Fetched(t)
    /\ response[t].xRobotsTag = {"nosnippet"}
    /\ response[t].robotsMeta = {}
    /\ response[t].description # ""
    /\ fetchAndParsePage(WithoutNosnippet(response[t])).metaDescription # ""
    /\ \E d \in pageDocs :
         d.url = cur[t].url /\ d.crawlId = crawlId[t] /\ d.nosnippet /\ d.metaDescription = ""

\* The stored document a result entry was made of.
DocOf(r) == CHOOSE d \in input[2] : d.id = r.of

\* Two documents that differ in nothing but the nosnippet flag (and identity).
SameButNosnippet(d1, d2) ==
  /\ d1.nosnippet # d2.nosnippet
  /\ [d1 EXCEPT !.nosnippet = FALSE, !.id = 0] = [d2 EXCEPT !.nosnippet = FALSE, !.id = 0]

C19_SleepAfterEveryAttempt ==
  [][\A t \in Tasks :
       (pc[t] \in {"newPage", "fetch", "find", "insert"} /\ pc'[t] # pc[t]) =>
         pc'[t] \in {"fetch", "find", "insert", "sleep"}]_vars

\* C19, the part the code meets: an attempt that gave a page or null sleeps
\* before the next loop test.
SleepAfterReturn ==
  [][\A t \in Tasks :
       (/\ pc[t] \in {"fetch", "find", "insert"}
        /\ pc'[t] # pc[t]
        /\ pc[t] = "fetch" => response'[t].error # "unset") =>
         pc'[t] \in {"find", "insert", "sleep"}]_vars

\* C22: the process launches at most one browser, however many crawls start.
C22_OneBrowser == browser <= 1

\* C22, what the code meets: a crawl that starts once a launch has resolved
\* launches nothing.
LaunchOnlyWithoutBrowser ==
  [][browser' # browser => browser' = browser + 1 /\ \E t \in Tasks : pc[t] = "launch"]_vars

\* The fetches in progress: the crawls between newPage and the end of
\* fetchAndParsePage.
FetchesInProgress == {t \in Tasks : pc[t] = "fetch"}

\* C23: every page fetchAndParsePage opened is closed when it ends, whatever
\* the outcome: the open pages are those of the fetches in progress, none
\* when there is no fetch.
C23_PagesClosed == openPages = Cardinality(FetchesInProgress)

\* A crawl that stored a page has just got null for a page with noindex, and
\* no page is open.
C23_Witness ==
  /\ openPages = 0
  /\ \E t \in Tasks :
       /\ pc[t] = "sleep"
       /\ savedCount[t] > 0
       /\ response[t].error = "none"
       /\ AssertsNoindex(response[t])
       /\ ~pageData[t].ok

\* C24: fetchAndParsePage raises nothing: the iteration that called it goes on
\* after the await with a page (to savePage) or with null (to the sleep).
C24_FetchNeverRaises ==
  [][\A t \in Tasks :
       (pc[t] \in {"newPage", "fetch"} /\ pc'[t] \notin {"newPage", "fetch"}) =>
         \/ pc'[t] = "find" /\ pageData'[t].ok
         \/ pc'[t] = "sleep" /\ ~pageData'[t].ok]_vars

\* C24, what the code meets: an error inside the try (navigation, a missing
\* response, extraction) gives null.
ErrorsInTryGiveNull ==
  [][\A t \in Tasks :
       (pc[t] = "fetch" /\ response'[t].error = "goto") =>
         pc'[t] = "sleep" /\ ~pageData'[t].ok]_vars

\* The fetch of robots.txt was made (no fresh cache entry) and gave no 200.
RobotsUnfetched ==
  /\ input.cached = {} \/ input.age >= CACHE_TTL
  /\ input.robots.kind # "http" \/ input.robots.status # 200

\* The sitemap answers getSitemapUrls used: those the parser lists, else the
\* default one.
SitemapsAsked ==
  LET parser == CHOOSE r \in robotsCache[YggHost] : TRUE
  IN  IF parser.sitemaps = <<>> THEN {1} ELSE {parser.sitemaps[i] : i \in DOMAIN parser.sitemaps}

\* The fetch of a sitemap gave no 200, or a document without <loc> entries.
SitemapUnusable(resp) ==
  resp.kind # "http" \/ resp.status # 200 \/ resp.data = <<>>

\* C20: isAllowedByRobots, getCrawlDelay and getSitemapUrls raise nothing;
\* when robots.txt cannot be fetched every URL is allowed and the delay is 0;
\* unreachable or malformed sitemaps give the empty list.
C20_RobotsNeverRaise ==
  \A k \in DOMAIN output :
    /\ ~output[k].threw
    /\ (input.fn = "isAllowed" /\ RobotsUnfetched) => output[k].value = TRUE
    /\ (input.fn = "crawlDelay" /\ RobotsUnfetched) => output[k].value = 0
    /\ (input.fn = "sitemapUrls" /\ \A i \in SitemapsAsked : SitemapUnusable(input.sitemaps[i]))
         => output[k].value = <<>>

\* isAllowedByRobots was called for a URL the expired cache entry disallows,
\* the fetch of robots.txt timed out, and the answer was true.
C20_Witness ==
  /\ output # <<>>
  /\ input.fn = "isAllowed"
  /\ input.cached = {Restrictive}
  /\ ~isAllowedByRobots(Restrictive, input.url)
  /\ input.age >= CACHE_TTL
  /\ input.robots.kind = "timeout"
  /\ output[1].value = TRUE

\* The job records of the store that carry task t's crawlId.
RecordsOf(t) == {d \in jobDocs : d.id.cid = crawlId[t]}

\* C25: every crawlUrl invocation, started by POST /submit or by the
\* scheduler, has exactly one job record in the store.
C25_OneRecordPerCrawl ==
  \A t \in Tasks : pc[t] \notin {"idle", "http500"} => Cardinality(RecordsOf(t)) = 1

\* C25, what the code meets: a crawl that POST /submit started has one record.
OneRecordPerSubmittedCrawl ==
  \A t \in Tasks :
    (pc[t] \notin {"idle", "http500"} /\ Submitted(t)) => Cardinality(RecordsOf(t)) = 1

\* C26: a submission that arrives gets a crawlId no job has, whatever the
\* clock reads, the millisecond of an earlier submission included, and so
\* creates a record of its own.
C26_FreshCrawlId ==
  \A t \in Tasks : Unused(t) =>
    \A ms \in SubmitTimes : JobDocsWithId(SubmitDocId([kind |-> "submit", n |-> ms])) = {}

\* C26, what the code meets: a crawl is started only once its record exists,
\* pending, and the record of a started crawl is its own.
PendingBeforeCrawl ==
  /\ [][\A t \in Tasks :
          (pc[t] = "idle" /\ pc'[t] \in {"launch", "running"} /\ Submitted(t)') =>
            \E d \in jobDocs' \ jobDocs :
              d.id = SubmitDocId(crawlId'[t]) /\ d.status = "pending"]_vars
  /\ [](\A t1, t2 \in Tasks :
          (/\ t1 # t2
           /\ pc[t1] \notin {"idle", "http500"} /\ Submitted(t1)
           /\ pc[t2] \notin {"idle", "http500"} /\ Submitted(t2)) =>
            crawlId[t1] # crawlId[t2])

\* The documents the store retrieves for the search: the candidates.
Candidates == {d \in input[2] : Selected(d, input[1].query, input[1].domain)}

\* The place of candidate d in the ranking, from 0: the candidates of a higher
\* score, and those of the same score the store returned earlier, precede it.
RankOf(d) ==
  LET score(c) == calculateRelevance(c, input[1].query)
  IN  Cardinality({c \in Candidates :
                     \/ score(c) > score(d)
                     \/ score(c) = score(d) /\ c.id < d.id})

C30_TitleMonotone ==
  \A k \in DOMAIN output :
    /\ output[k].none <= output[k].sub
    /\ output[k].sub <= output[k].exact

\* C30, what the code meets: a title without the query never scores more than
\* one that holds it or equals it, and a substring title scores no more than
\* the equal one while the query has three words or fewer.
TitleMonotoneUpToThreeWords ==
  \A k \in DOMAIN output :
    /\ output[k].none <= output[k].sub
    /\ output[k].none <= output[k].exact
    /\ Len(splitWords(strLower(input.query))) <= 3 => output[k].sub <= output[k].exact

\* C27: a status update a crawl makes leaves the record of every other job
\* as it was.
C27_OwnRecordOnly ==
  [][\A t \in Tasks :
       issued'[t] # issued[t] =>
         \A d \in jobDocs : d.id.cid # crawlId[t] => d \in jobDocs']_vars

\* A crawl has issued an update while the record of another running crawl is
\* in the store.
C27_Witness ==
  \E t1, t2 \in Tasks :
    /\ t1 # t2
    /\ InCrawl(t1) /\ InCrawl(t2)
    /\ issued[t1] # <<>>
    /\ RecordsOf(t2) # {}
    /\ crawlId[t1] # crawlId[t2]

\* C28: a URL one crawl has fetched, persisted and counted is not counted by
\* another crawl (visitedUrls holds the URLs counted so far, by any crawl).
C28_CountedOnce ==
  [][\A t \in Tasks :
       processedPages'[t] > processedPages[t] => cur[t].url \notin visitedUrls]_vars

\* C28, what the code meets: a crawl does not dequeue for fetching a URL that
\* is in visitedUrls.
SkipVisitedAtDequeue ==
  [][\A t \in Tasks :
       (pc[t] = "loop" /\ pc'[t] = "robots") => cur'[t].url \notin visitedUrls]_vars

\* The record of host h is cached and less than 24 hours old.
Within24Hours(h) == robotsCache[h] # {} /\ now < timestamp[h] + CACHE_TTL

\* C21: while an origin's cached record, from a fetch that succeeded or failed,
\* is less than 24 hours old no query fetches robots.txt for that origin; a
\* query after that fetches, and the answer replaces the record and its time.
C21_CachedForTtl ==
  [][\A t \in Tasks :
       /\ (querying[t] = NoQuery /\ querying'[t] # NoQuery) =>
            (querying'[t].at = "get" <=> ~Within24Hours(querying'[t].host))
       /\ (querying[t].at = "get" /\ querying'[t].at # "get") =>
            /\ robotsCache'[querying[t].host] # {}
            /\ timestamp'[querying[t].host] = now]_vars

\* A query finds a record stored half a day before, the permissive one, and
\* returns it without a fetch, after an older record of the origin was
\* replaced.
C21_Witness ==
  \E t \in Tasks :
    /\ querying[t].at = "return"
    /\ robotsCache[querying[t].host] = {Permissive}
    /\ timestamp[querying[t].host] >= CACHE_TTL
    /\ now > timestamp[querying[t].host]
    /\ Within24Hours(querying[t].host)

\* The places (from 0) of the content where the query stands, in any case.
Occurrences(content, query) ==
  {i \in 0..(Len(content) - Len(query)) :
     strLower(SubSeq(content, i + 1, i + Len(query))) = strLower(query)}

\* The snippet the claim describes for a content and a query.
WindowAround(content, query) ==
  LET occ == Occurrences(content, query)
      first == CHOOSE i \in occ : \A j \in occ : i <= j
      from == Max(0, first - SnippetLength \div 2)
      to == Min(Len(content), first + Len(query) + SnippetLength \div 2)
  IN  IF occ = {} THEN SubSeq(content, 1, Min(SnippetLength, Len(content))) \o Ellipsis
      ELSE (IF from > 0 THEN Ellipsis ELSE <<>>)
             \o SubSeq(content, from + 1, to)
             \o (IF to < Len(content) THEN Ellipsis ELSE <<>>)

\* C31: the snippet is the content from 100 characters before the first
\* occurrence of the query, in any case, to 100 characters after its end, with
\* an ellipsis on each side that was cut; for a content without the query it
\* is the first 200 characters and an ellipsis.
C31_SnippetWindow ==
  \A k \in DOMAIN output : output[k] = WindowAround(input.content, input.query)

\* C31, what the code meets: the same for a content that is not empty and
\* whose characters before the occurrence keep their length in lower case.
SnippetWindowInPlace ==
  \A k \in DOMAIN output :
    (input.content # <<>> /\ \A i \in DOMAIN input.content : input.content[i] # "Idot")
      => output[k] = WindowAround(input.content, input.query)

\* Some session holds a user, or the development bypass is on.
SomeoneAdmitted ==
  (devMode /\ bypassAuth) \/ \E s \in Sids : sessionStore[s].user # 0

Crawling(t) == pc[t] \notin {"idle", "http500", "done"}

\* C33: every entry in a job's frontier queue has depth at most maxDepth, for
\* every maxDepth >= 0, the entries seeded from the sitemap included.
C33_QueueWithinDepth ==
  \A t \in Tasks :
    (Crawling(t) /\ maxDepth[t] >= 0) =>
      \A i \in DOMAIN queue[t] : queue[t][i].depth <= maxDepth[t]

\* C33, amended: the seed is queued at depth 0 and the sitemap's entries at
\* depth 1 whatever maxDepth is, so for maxDepth >= 1 every queued entry has
\* depth at most maxDepth, and for maxDepth 0 at most 1; the entries a page's
\* links add have depth at most maxDepth; an entry deeper than maxDepth is
\* dropped when it is dequeued, and nothing is fetched for it.
C33_QueueWithinDepthOrOne ==
  /\ [](\A t \in Tasks :
          (Crawling(t) /\ maxDepth[t] >= 0) =>
            /\ \A i \in DOMAIN queue[t] : queue[t][i].depth <= Max(maxDepth[t], 1)
            /\ pc[t] \in {"robots", "newPage", "fetch", "find", "insert"} =>
                 cur[t].depth <= maxDepth[t])
  /\ [][\A t \in Tasks :
          (pc[t] \in {"fetch", "find", "insert"} /\ maxDepth[t] >= 0) =>
            \A i \in DOMAIN queue'[t] :
              i > Len(queue[t]) => queue'[t][i].depth <= maxDepth[t]]_vars

\* A crawl with maxDepth 0 dequeued an entry of depth 1 that the sitemap gave
\* and is back at the loop head without a fetch for it.
C33_Witness ==
  \E t \in Tasks :
    /\ maxDepth[t] = 0
    /\ pc[t] = "loop"
    /\ cur[t].depth = 1
    /\ cur[t].url \notin visitedUrls
    /\ processedPages[t] = 1

\* The depths of a queue's entries never fall from one entry to the next.
DepthsAscend(q) == \A i, j \in DOMAIN q : i < j => q[i].depth <= q[j].depth

\* C34: a dequeue takes the entry at the head of the queue and an enqueue adds
\* at its end, so the depths of the entries a job dequeues never fall: while an
\* entry is being handled every entry still queued is at least as deep, and
\* the entry dequeued next is at least as deep as the one before.
C34_FifoByDepth ==
  /\ [](\A t \in Tasks :
          Crawling(t) =>
            /\ DepthsAscend(queue[t])
            /\ \A i \in DOMAIN queue[t] : cur[t].depth <= queue[t][i].depth)
  /\ [][\A t \in Tasks :
          /\ (pc[t] = "loop" /\ queue'[t] # queue[t] /\ pc'[t] # "complete") =>
               /\ cur'[t] = Head(queue[t])
               /\ queue'[t] = Tail(queue[t])
               /\ cur'[t].depth >= cur[t].depth
          /\ (pc[t] \in {"sitemap", "fetch", "find", "insert"}) =>
               /\ Len(queue'[t]) >= Len(queue[t])
               /\ SubSeq(queue'[t], 1, Len(queue[t])) = queue[t]]_vars

\* The seed's page was handled, an entry of depth 1 is being fetched, and the
\* queue holds a further entry of depth 1 that was enqueued after it.
C34_Witness ==
  \E t \in Tasks :
    /\ pc[t] = "fetch"
    /\ cur[t].depth = 1
    /\ processedPages[t] = 1
    /\ queue[t] # <<>>
    /\ queue[t][1].depth = 1

\* C35: when queries for one origin overlap the cache holds at most one record
\* for the origin, and a record with directives, which only a fetch that
\* succeeded stores, is not replaced while it is less than 24 hours old by the
\* permissive record of a fetch that failed.
C35_OverlapKeepsDirectives ==
  /\ [](\A h \in Hosts : Cardinality(robotsCache[h]) <= 1)
  /\ [][\A t \in Tasks :
          (/\ querying[t].at = "get"
           /\ querying'[t].at = "return"
           /\ querying'[t].caught
           /\ robotsCache[querying[t].host] = {Restrictive}
           /\ Within24Hours(querying[t].host)) =>
            robotsCache'[querying[t].host] = {Restrictive}]_vars

\* C35, what the code meets: every query that fetched ends with a record for
\* its origin in the cache, one record at most, and returns; the record is the
\* one of the fetch that settled last.
LastFetchWins ==
  /\ [](\A h \in Hosts : Cardinality(robotsCache[h]) <= 1)
  /\ [][\A t \in Tasks :
          (querying[t].at = "get" /\ querying'[t].at = "return") =>
            /\ robotsCache'[querying[t].host] # {}
            /\ querying'[t].caught => robotsCache'[querying[t].host] = {Permissive}]_vars

\* The body of the submission carries maxDepth, an integer that is not negative.
SuppliesDepth(body) == \E v \in body : v.type = "number" /\ v.n >= 0

\* The job document and the crawl of a submission have the depth of body.
DepthIs(v) ==
  /\ \A d \in jobDocs : d.maxDepth = v
  /\ \A t \in Tasks :
       Crawling(t) =>
         /\ maxDepth[t] = ToNumber(v)
         /\ pc[t] \in {"fetch", "find", "insert"} => cur[t].depth <= ToNumber(v)

\* C36: a submission that supplies maxDepth, any integer from 0 up, has
\* exactly that value in its job document and as the bound of its crawl; a
\* submission without maxDepth has the configured default.
C36_SuppliedDepthKept ==
  /\ SuppliesDepth(input) => \A v \in input : DepthIs(v)
  /\ input = {} => DepthIs(JsNumber(DefaultMaxDepth))

\* C36, what the code meets: the same for every supplied integer but 0.
SuppliedTruthyDepthKept ==
  /\ (SuppliesDepth(input) /\ input # {JsNumber(0)}) => \A v \in input : DepthIs(v)
  /\ input = {} => DepthIs(JsNumber(DefaultMaxDepth))

\* C37: within one crawl invocation no URL has a page opened and navigated
\* for it a second time.
C37_RenderedOnce == \A t \in Tasks : rendered[t].again = {}

\* C37, what the code meets: a URL whose page this crawl stored is not
\* rendered again by it; a URL is rendered again only after a fetch of it that
\* stored nothing.
StoredNotRenderedAgain ==
  [][\A t \in Tasks :
       (pc[t] = "newPage" /\ pc'[t] = "fetch") =>
         /\ cur[t].url \notin visitedUrls
         /\ ~ \E d \in pageDocs : d.url = cur[t].url /\ d.crawlId = crawlId[t]]_vars

\* C38: the domain field of every stored page is the host of its url field.
C38_DomainOfUrl == \A d \in pageDocs : d.domain = d.url.host

\* C38, what the code meets: the domain field is the host the page was
\* fetched from, which is the host of the url field outside development mode
\* and for every host that is not a loopback or private one.
DomainOfFetchedUrl ==
  \A d \in pageDocs :
    /\ d.domain = convertUrlForCrawling(devMode, d.url).host
    /\ (~devMode \/ ~isLocalhost(d.url.host)) => d.domain = d.url.host

\* The callback request r has set session.user.
SignedIn(r) == callbacks[r].at = "done" /\ callbacks[r].outcome = "signedIn"

\* A callback goes on to the token exchange only with the state that its
\* session holds from a login, and only such a callback sets session.user,
\* removing the state and the verifier from the session.
CheckedThenRemoved ==
  [][\A r \in Requests :
       /\ (callbacks[r].at # "exchange" /\ callbacks'[r].at = "exchange") =>
            /\ callbacks'[r].state # 0
            /\ callbacks'[r].state = sessionStore[callbacks'[r].sid].oidc_state
       /\ (~SignedIn(r) /\ SignedIn(r)') =>
            /\ callbacks[r].at = "exchange"
            /\ callbacks[r].code \notin redeemed
            /\ sessionStore'[callbacks[r].sid].user # 0
            /\ sessionStore'[callbacks[r].sid].oidc_state = 0
            /\ sessionStore'[callbacks[r].sid].oidc_code_verifier = 0]_vars

\* C39: the callback exchanges the code and sets session.user only when the
\* request's state is the one a preceding login stored in that session, the
\* state and the verifier are removed by a successful callback, and no state
\* completes two callbacks.
C39_StateCompletesOnce ==
  /\ CheckedThenRemoved
  /\ [](\A r, q \in Requests :
          (r # q /\ SignedIn(r) /\ SignedIn(q)) => callbacks[r].state # callbacks[q].state)

\* C39, what the code meets beyond CheckedThenRemoved: a callback that arrives
\* once a callback with its state has signed in does not sign in.
NoCallbackAfterSignIn ==
  [][\A r, q \in Requests :
       (/\ r # q
        /\ SignedIn(q)
        /\ callbacks[r].at = "idle"
        /\ callbacks'[r].at # "idle"
        /\ callbacks'[r].state = callbacks[q].state
        /\ ~(devMode /\ bypassAuth)) =>
         callbacks'[r].at \in {"wait", "done"} /\ callbacks'[r].outcome # "signedIn"
           /\ callbacks'[r].at # "exchange"]_vars

====
